---- MODULE Spec2Model ----
(***************************************************************************)
(* Model of multipatch_analysis.experiment.Experiment: parsing of the      *)
(* old-format summary entry and of the YAML pipette metadata into the      *)
(* Cell Registry and the curated connection lists, the label-coverage      *)
(* validation of the constructor, and the derived views                    *)
(* (connections_probed, connections, summary).                             *)
(*                                                                         *)
(* Conventions.                                                            *)
(*  - A Python string is a sequence of one-character strings, so that the  *)
(*    regular expressions of the source are applied character by           *)
(*    character.                                                           *)
(*  - A tri-state scalar (a QC flag, a label value) is one of the strings  *)
(*    "True", "False", "+", "-", "None"; "None" is Python's None.          *)
(*  - An optional collection or string is Nil (None) or Some(v).           *)
(*  - A cre type is the sequence of the components of its comma-joined     *)
(*    string; the cre type None is the empty sequence.                     *)
(***************************************************************************)
EXTENDS Integers, Sequences, FiniteSets, TLC

(***************************************************************************)
(* Python values                                                           *)
(***************************************************************************)
None == "None"

Nil == << >>

Some(v) == << v >>

Val(o) == o[1]

\* set of the elements of a sequence
Range(s) == { s[i] : i \in DOMAIN s }

\* s[i:] (1-based i), the rest of a string from position i on
From(s, i) == IF i > Len(s) THEN << >> ELSE SubSeq(s, i, Len(s))

\* a Python dict d with d[k] = v set
DictSet(d, k, v) == [ x \in (DOMAIN d) \cup {k} |-> IF x = k THEN v ELSE d[x] ]

EmptyDict == [ x \in {} |-> None ]

(***************************************************************************)
(* Characters and the string methods the parsers use                       *)
(***************************************************************************)
Digits == { "0", "1", "2", "3", "4", "5", "6", "7", "8", "9" }

DigitVal(c) ==
    CASE c = "0" -> 0 [] c = "1" -> 1 [] c = "2" -> 2 [] c = "3" -> 3
      [] c = "4" -> 4 [] c = "5" -> 5 [] c = "6" -> 6 [] c = "7" -> 7
      [] c = "8" -> 8 [] c = "9" -> 9

\* int(s) for a string of decimal digits
RECURSIVE ParseInt(_)
ParseInt(s) ==
    IF Len(s) = 0 THEN 0
    ELSE 10 * ParseInt(SubSeq(s, 1, Len(s) - 1)) + DigitVal(s[Len(s)])

\* length of the longest prefix of s made of characters of the set cs
\* (what a greedy cs* consumes)
RECURSIVE SpanLen(_, _)
SpanLen(s, cs) ==
    IF Len(s) = 0 \/ s[1] \notin cs THEN 0 ELSE 1 + SpanLen(Tail(s), cs)

\* length of the longest suffix of s made of characters of the set cs
RECURSIVE SpanLenRight(_, _)
SpanLenRight(s, cs) ==
    IF Len(s) = 0 \/ s[Len(s)] \notin cs THEN 0
    ELSE 1 + SpanLenRight(SubSeq(s, 1, Len(s) - 1), cs)

StartsWith(s, p) == Len(s) >= Len(p) /\ SubSeq(s, 1, Len(p)) = p

EndsWith(s, p) == Len(s) >= Len(p) /\ SubSeq(s, Len(s) - Len(p) + 1, Len(s)) = p

\* Python's `a in b` for two strings: a is a substring of b
IsSubstring(a, b) ==
    \E i \in 1..(Len(b) + 1) : i + Len(a) - 1 <= Len(b) /\ SubSeq(b, i, i + Len(a) - 1) = a

\* str.lstrip(cs), str.rstrip(cs), str.strip() for the character set cs
LStrip(s, cs) == From(s, SpanLen(s, cs) + 1)

RStrip(s, cs) == SubSeq(s, 1, Len(s) - SpanLenRight(s, cs))

Whitespace == { " " }

Strip(s) == RStrip(LStrip(s, Whitespace), Whitespace)

LowerChar(c) ==
    CASE c = "H" -> "h" [] c = "U" -> "u" [] c = "M" -> "m" [] c = "A" -> "a"
      [] c = "N" -> "n" [] c = "L" -> "l" [] c = "P" -> "p" [] c = "Y" -> "y"
      [] c = "R" -> "r" [] OTHER -> c

UpperChar(c) ==
    CASE c = "h" -> "H" [] c = "u" -> "U" [] c = "m" -> "M" [] c = "a" -> "A"
      [] c = "n" -> "N" [] c = "l" -> "L" [] c = "p" -> "P" [] c = "y" -> "Y"
      [] c = "r" -> "R" [] OTHER -> c

Lower(s) == [ i \in DOMAIN s |-> LowerChar(s[i]) ]

Upper(s) == [ i \in DOMAIN s |-> UpperChar(s[i]) ]

\* one optional single-character group of a regular expression, "(c1|c2|..)?",
\* applied at position i of s: the character it captures, or None
OptGroup(s, i, cs) == IF i <= Len(s) /\ s[i] \in cs THEN s[i] ELSE None

GroupLen(g) == IF g = None THEN 0 ELSE 1

\* x or '' for a captured group
OrEmpty(g) == IF g = None THEN << >> ELSE << g >>

(***************************************************************************)
(* Vocabularies (multipatch_analysis.constants): a reduced instance        *)
(***************************************************************************)
sim1 == << "s", "i", "m", "1" >>

pvalb == << "p", "v", "a", "l", "b" >>

unknown == << "u", "n", "k" >>

biocytin == << "b", "i", "o" >>

af488 == << "a", "f", "4", "8", "8" >>

tdTomato == << "t", "d", "T" >>

red == << "r", "e", "d" >>

green == << "g", "r", "n" >>

\* the fixed global ordering of cre types; 'unknown' is one of them
ALL_CRE_TYPES == << sim1, pvalb, unknown >>

\* the fixed global ordering of non-genetic labels
ALL_LABELS == << biocytin, af488 >>

\* fluorophore -> emission color
FLUOROPHORES == [ f \in { tdTomato, af488 } |-> IF f = tdTomato THEN red ELSE green ]

\* list.index(x)
IndexOf(seq, x) == CHOOSE i \in DOMAIN seq : seq[i] = x /\ \A j \in 1..(i - 1) : seq[j] # x

(***************************************************************************)
(* Cell (multipatch_analysis.cell)                                         *)
(***************************************************************************)
\* Cell(expt, cell_id): a cell with no labels and unknown QC
NewCell(cell_id) ==
    [ cell_id |-> cell_id, labels |-> EmptyDict, raw_labels |-> EmptyDict,
      target_layer |-> Nil, holding_qc |-> None, access_qc |-> None,
      spiking_qc |-> None, position |-> None ]

IsPositive(v) == v \in { "+", "True" }

\* driver labels of the cell that are positive, in the global order
PositiveDrivers(cell) ==
    SelectSeq(ALL_CRE_TYPES, LAMBDA t : t # unknown /\ t \in DOMAIN cell.labels
                                        /\ IsPositive(cell.labels[t]))

\* the cre type None (indeterminate)
NoCreType == << >>

\* Cell.cre_type: the positive drivers (the components of the comma-joined
\* string), << unknown >> for a cell with none, and None when no driver is
\* positive and the value of some driver label is not known
CreType(cell) ==
    IF PositiveDrivers(cell) # << >> THEN PositiveDrivers(cell)
    ELSE IF \E t \in Range(ALL_CRE_TYPES) :
                t \in DOMAIN cell.labels /\ cell.labels[t] = None THEN NoCreType
    ELSE << unknown >>

\* Cell.pass_qc: the tri-state conjunction of holding and access QC
PassQC(cell) ==
    IF cell.access_qc = "True" /\ cell.holding_qc = "True" THEN "True"
    ELSE IF cell.access_qc = "False" \/ cell.holding_qc = "False" THEN "False"
    ELSE None

(***************************************************************************)
(* The regular expressions of the parsers                                  *)
(***************************************************************************)
\* re.match('(\d+)(x)?(\+|\-)?(\?)?', part): a match of a prefix of part
MatchLabelPart(part) ==
    LET n  == SpanLen(part, Digits)
        g2 == OptGroup(part, n + 1, { "x" })
        i3 == n + 1 + GroupLen(g2)
        g3 == OptGroup(part, i3, { "+", "-" })
        i4 == i3 + GroupLen(g3)
        g4 == OptGroup(part, i4, { "?" })
    IN  IF n = 0 THEN [ ok |-> FALSE ]
        ELSE [ ok |-> TRUE, g1 |-> SubSeq(part, 1, n), g2 |-> g2, g3 |-> g3, g4 |-> g4,
               end |-> i4 + GroupLen(g4) - 1 ]

\* re.match('(x)?(\+|\-)?(\?)?', value): a match of a prefix of value; every
\* group is optional, so the match never fails
MatchLabelValue(value) ==
    LET g1 == OptGroup(value, 1, { "x" })
        i2 == 1 + GroupLen(g1)
        g2 == OptGroup(value, i2, { "+", "-" })
        i3 == i2 + GroupLen(g2)
        g3 == OptGroup(value, i3, { "?" })
    IN  [ ok |-> TRUE, g1 |-> g1, g2 |-> g2, g3 |-> g3, end |-> i3 + GroupLen(g3) - 1 ]

\* re.match(r'(\d+)(\+|\/|\-|\?)', part)
MatchQCPart(part) ==
    LET n == SpanLen(part, Digits)
        g2 == OptGroup(part, n + 1, { "+", "/", "-", "?" })
    IN  IF n = 0 \/ g2 = None THEN [ ok |-> FALSE ]
        ELSE [ ok |-> TRUE, g1 |-> SubSeq(part, 1, n), g2 |-> g2, end |-> n + 1 ]

\* re.match(r'(\d+)\s*->\s*(\d+)\s*(\??)\s*(.*)', line)
MatchConnection(line) ==
    LET n1 == SpanLen(line, Digits)
        a  == From(line, n1 + 1)
        b  == LStrip(a, Whitespace)
        c  == LStrip(From(b, 3), Whitespace)
        n2 == SpanLen(c, Digits)
        d  == LStrip(From(c, n2 + 1), Whitespace)
        q  == IF Len(d) > 0 /\ d[1] = "?" THEN << "?" >> ELSE << >>
    IN  IF n1 = 0 \/ ~StartsWith(b, << "-", ">" >>) \/ n2 = 0 THEN [ ok |-> FALSE ]
        ELSE [ ok |-> TRUE, g1 |-> SubSeq(line, 1, n1), g2 |-> SubSeq(c, 1, n2), g3 |-> q,
               g4 |-> LStrip(From(d, Len(q) + 1), Whitespace) ]

\* re.match("^(\d+)(\?)?$", post_id): the whole string
MatchPostId(post_id) ==
    LET n == SpanLen(post_id, Digits)
        g2 == OptGroup(post_id, n + 1, { "?" })
    IN  IF n = 0 \/ n + GroupLen(g2) # Len(post_id) THEN [ ok |-> FALSE ]
        ELSE [ ok |-> TRUE, g1 |-> SubSeq(post_id, 1, n), g2 |-> g2 ]

(***************************************************************************)
(* State of one Experiment under construction and in use                   *)
(***************************************************************************)
VARIABLES
    fmt,              \* "old": Experiment(entry=...); "yml": Experiment(yml_file=...)
    pc,               \* position of the constructor / lifecycle of the object
    err,              \* the exception that aborted construction, or NoError
    electrodes,       \* self.electrodes: the pipette ids
    cells,            \* the Cell Registry: cell id -> Cell
    _connections,     \* curated synaptic connections: Nil or Some(list of pairs)
    _gaps,            \* curated electrical connections: Nil or Some(list of pairs)
    have_labels,      \* _load_old_format: a Labeling section was parsed
    have_connections, \* _load_old_format: a Connections section was parsed
    _region,          \* Nil or Some(region name)
    _site_path,       \* Nil or Some(path)
    nchildren,        \* number of children of the entry / pipettes consumed so far
    nlines,           \* number of lines of the current section consumed so far
    cur,              \* the input line (or pipette record) consumed last
    pipettes,         \* PipetteMetadata.pipettes: pipette id -> record
    heads,            \* the first lines of the children of the entry read so far
    lims,             \* the LIMS record of the specimen: organism and genotype
    predict_calls,    \* the calls of genotype.predict_driver_expression so far
    _nwb_file,        \* Experiment._nwb_file: Nil or Some(name of the recording)
    _slice_info,      \* Experiment._slice_info: Nil or Some(the specimen_ID of the slice)
    _lims_record,     \* Experiment._lims_record: Nil or Some(record)
    _genotype,        \* Experiment._genotype: Nil or Some(the drivers of the genotype)
    acc,              \* the accessor read last
    acc_err,          \* the exception the last read of an accessor raised, or ""
    site_dir,         \* Nil or Some(what the last read of nwb_file found in the directory)
    _target_layers,   \* cache of target_layers: Nil or Some(list)
    ret,              \* the view being read and the value the read returns ("" between reads)
    first_read,       \* view -> the value its first read returned
    _data,            \* Experiment._data: None or "open", the handle of the recording
    cache_file,       \* the file cell_qc_cache.pkl
    tmp_file,         \* the file cell_qc_cache.pkl_tmp
    qc_pc,            \* position of the running call of _generate_cell_qc
    ad_chan,          \* _generate_cell_qc: its argument
    cache,            \* _generate_cell_qc: the local dict cache
    cache_key,        \* _generate_cell_qc: Nil or Some(the local cache_key)
    passed_holding,   \* _generate_cell_qc: the local counter
    nsweeps,          \* the number of sweeps of nwb.contents consumed so far
    ncalls,           \* the number of calls of _generate_cell_qc so far
    at_call,          \* the cache file as it was when the last call began
    srec,             \* the sweep the loop over nwb.contents is at, NoSweep outside the loop
    returned,         \* key -> the result of the calls that returned since the last crash
    qc_ret,           \* Nil or Some(the value the last call returned)
    _cre_types,       \* cache of cre_types: Nil or Some(list)
    _labels,          \* cache of labels: Nil or Some(list)
    _probed,          \* cache of connections_probed: Nil or Some(list of pairs)
    _summary          \* cache of summary(): Nil or Some(dict)

\* the fields and files that only the accessors of the external facts and the
\* QC derivation write
qcVars == << _data, cache_file, tmp_file, qc_pc, ad_chan, cache, cache_key, passed_holding,
            nsweeps, ncalls, at_call, srec, returned, qc_ret >>

accVars == << _slice_info, _lims_record, _genotype, acc, acc_err, site_dir >>

memoVars == << _target_layers, ret, first_read >>

extVars == << _nwb_file, accVars, qcVars, memoVars >>

vars == << fmt, pc, err, electrodes, cells, _connections, _gaps, have_labels,
           have_connections, _region, _site_path, nchildren, nlines, cur, pipettes,
           heads, lims, predict_calls, extVars, _cre_types, _labels, _probed, _summary >>

parseVars == << electrodes, cells, _connections, _gaps, have_labels, have_connections,
                _region, _site_path, nchildren, nlines, cur, pipettes >>

cacheVars == << _cre_types, _labels, _probed, _summary >>

NoError == [ where |-> << >>, kind |-> "" ]

Error(where, kind) == [ where |-> where, kind |-> kind ]

NoLine == [ kind |-> "none", head |-> << >>, parts |-> << >>, text |-> << >> ]

\* a line of a Labeling or Cell QC section after re.split('\s+', line):
\* parts[0] is head, parts[1:] is parts
PartsLine(kind, head, parts) == [ kind |-> kind, head |-> head, parts |-> parts, text |-> << >> ]

\* a line of a Connections section, or the first line of a child of the entry
TextLine(kind, text) == [ kind |-> kind, head |-> << >>, parts |-> << >>, text |-> text ]

(***************************************************************************)
(* _parse_labeling                                                         *)
(***************************************************************************)
layer_labels == { << "L", "1" >>, << "L", "2", "3", "p", "y", "r" >>, << "L", "4", "p", "y", "r" >>, << "L", "5", "p", "y", "r" >>, << "L", "6", "p", "y", "r" >> }

NormLayer(layer) == IF layer = << "2", "3" >> THEN << "2", "/", "3" >> ELSE layer

\* the body of the loop over parts[1:] for one part
LabelPart(cs, cre, part) ==
    LET m        == MatchLabelPart(part)
        cell_id  == ParseInt(m.g1)
        cell     == cs[cell_id]
        absent   == m.g2 = "x"
        positive == m.g3
        uncertain == m.g4 = "?"
        raw      == OrEmpty(m.g2) \o OrEmpty(m.g3) \o OrEmpty(m.g4)
        c1       == [ cell EXCEPT !.raw_labels = DictSet(@, cre, raw) ]
    IN  IF ~m.ok THEN [ err |-> "invalid label record", cells |-> cs ]
        ELSE IF cell_id \notin DOMAIN cs THEN [ err |-> "KeyError", cells |-> cs ]
        ELSE IF StartsWith(cre, << "h", "u", "m", "a", "n", "_" >>) /\ positive = "+" THEN
            [ err |-> "",
              cells |-> [ cs EXCEPT ![cell_id] =
                  [ c1 EXCEPT !.target_layer = Some(NormLayer(Upper(From(cre, 8)))) ] ] ]
        ELSE IF cre \in layer_labels THEN
            [ err |-> "",
              cells |-> [ cs EXCEPT ![cell_id] =
                  [ c1 EXCEPT !.target_layer =
                      Some(NormLayer(RStrip(LStrip(cre, { "L" }), { "p", "y", "r" }))) ] ] ]
        ELSE IF cre \in DOMAIN cell.labels THEN
            [ err |-> "AssertionError", cells |-> [ cs EXCEPT ![cell_id] = c1 ] ]
        ELSE
            [ err |-> "",
              cells |-> [ cs EXCEPT ![cell_id] = [ c1 EXCEPT !.labels = DictSet(@, cre, positive) ] ] ]

\* the loop over parts[1:]; it stops at the first exception
RECURSIVE LabelParts(_, _, _)
LabelParts(cs, cre, parts) ==
    IF parts = << >> THEN [ err |-> "", cells |-> cs ]
    ELSE LET r == LabelPart(cs, cre, Head(parts))
         IN  IF r.err # "" THEN r ELSE LabelParts(r.cells, cre, Tail(parts))

IsLabelName(cre) ==
    \/ cre \in Range(ALL_LABELS)
    \/ cre \in Range(ALL_CRE_TYPES)
    \/ StartsWith(Lower(cre), << "h", "u", "m", "a", "n", "_", "l" >>)
    \/ cre \in layer_labels

\* the body of the loop over entry.children for one line of the section
LabelLine(cs, line) ==
    LET cre == SubSeq(line.head, 1, Len(line.head) - 1)
    IN  IF ~EndsWith(line.head, << ":" >>) THEN [ err |-> "AssertionError", cells |-> cs ]
        ELSE IF ~IsLabelName(cre) THEN [ err |-> "Invalid label or cre type", cells |-> cs ]
        ELSE IF Len(line.parts) = 1 /\ Strip(line.parts[1]) = << "?" >> THEN [ err |-> "", cells |-> cs ]
        ELSE LabelParts(cs, cre, line.parts)

(***************************************************************************)
(* _parse_qc                                                               *)
(***************************************************************************)
\* val in '+/' for the one-character string val
QCPass(val) == IF IsSubstring(<< val >>, << "+", "/" >>) THEN "True" ELSE "False"

\* the body of the loop over parts[1:] for one part
QCPart(cs, head, part) ==
    LET m       == MatchQCPart(part)
        cell_id == ParseInt(m.g1)
        val     == m.g2
    IN  IF ~m.ok THEN [ err |-> "Invalid cell QC string", cells |-> cs ]
        ELSE IF cell_id \notin DOMAIN cs THEN [ err |-> "KeyError", cells |-> cs ]
        ELSE IF head = << "H", "o", "l", "d", "i", "n", "g", ":" >> THEN
            [ err |-> "", cells |-> [ cs EXCEPT ![cell_id].holding_qc = QCPass(val) ] ]
        ELSE IF head = << "A", "c", "c", "e", "s", "s", ":" >> THEN
            [ err |-> "", cells |-> [ cs EXCEPT ![cell_id].access_qc = QCPass(val) ] ]
        ELSE IF head = << "S", "p", "i", "k", "i", "n", "g", ":" >> THEN
            [ err |-> "", cells |-> [ cs EXCEPT ![cell_id].spiking_qc = QCPass(val) ] ]
        ELSE [ err |-> "Invalid Cell QC line", cells |-> cs ]

\* the loop over parts[1:] of one line of the section
RECURSIVE QCLine(_, _, _)
QCLine(cs, head, parts) ==
    IF parts = << >> THEN [ err |-> "", cells |-> cs ]
    ELSE LET r == QCPart(cs, head, Head(parts))
         IN  IF r.err # "" THEN r ELSE QCLine(r.cells, head, Tail(parts))

(***************************************************************************)
(* _parse_connections                                                      *)
(***************************************************************************)
\* _parse_connections appending the pair of a questionable line as well
ConnectionLineKeepAll(conns, text) ==
    LET m == MatchConnection(Strip(text))
    IN  IF ~m.ok THEN [ err |-> "Invalid connection", conns |-> conns ]
        ELSE [ err |-> "", conns |-> Append(conns, << ParseInt(m.g1), ParseInt(m.g2) >>) ]

\* the body of the loop over entry.children for one line: the list after it
ConnectionLine(conns, text) ==
    LET m == MatchConnection(Strip(text))
    IN  IF ~m.ok THEN [ err |-> "Invalid connection", conns |-> conns ]
        ELSE IF m.g3 = << "?" >> THEN [ err |-> "", conns |-> conns ]
        ELSE [ err |-> "", conns |-> Append(conns, << ParseInt(m.g1), ParseInt(m.g2) >>) ]

(***************************************************************************)
(* Bounds of the model                                                     *)
(***************************************************************************)
\* children of an old-format entry
MaxChildren == 3

\* lines of one section of an old-format entry
MaxLines == 3

\* electrodes of an old-format experiment: range(1, 9)
NumElectrodes == 8

(***************************************************************************)
(* _load_old_format                                                        *)
(***************************************************************************)
\* lines 398-413: the electrodes 1..8, each with a Cell
OldBegin ==
    /\ pc = "new" /\ fmt = "old"
    /\ electrodes' = 1..NumElectrodes
    /\ cells' = [ i \in 1..NumElectrodes |-> NewCell(i) ]
    /\ pc' = "children"
    /\ UNCHANGED << fmt, err, _connections, _gaps, have_labels, have_connections, _region,
                    _site_path, nchildren, nlines, cur, pipettes, heads, lims, predict_calls, extVars, cacheVars >>

\* lines 417-445, one child ch of the entry up to the call of its section
\* parser; ch has the first line ch.head and ch.nsub children, and ch.isdir
\* tells whether a site path it names is a directory
OldChild(ch) ==
    /\ pc = "children" /\ nchildren < MaxChildren
    /\ nchildren' = nchildren + 1
    /\ nlines' = 0
    /\ cur' = TextLine("child", ch.head)
    /\ heads' = heads \cup { ch.head }
    /\ IF ch.head = << "L", "a", "b", "e", "l", "i", "n", "g" >> THEN
           /\ pc' = "labeling"
           /\ UNCHANGED << err, _connections, _region, _site_path >>
       ELSE IF ch.head = << "C", "e", "l", "l", " ", "Q", "C" >> THEN
           /\ pc' = "qc"
           /\ UNCHANGED << err, _connections, _region, _site_path >>
       ELSE IF ch.head = << "C", "o", "n", "n", "e", "c", "t", "i", "o", "n", "s" >> THEN
           /\ _connections' = Some(<< >>)
           /\ pc' = "connections"
           /\ UNCHANGED << err, _region, _site_path >>
       ELSE IF ch.head = << "C", "o", "n", "d", "i", "t", "i", "o", "n", "s" >> THEN
           UNCHANGED << pc, err, _connections, _region, _site_path >>
       ELSE IF StartsWith(ch.head, << "R", "e", "g", "i", "o", "n", " " >>) THEN
           IF ch.nsub # 0 THEN
               /\ pc' = "failed"
               /\ err' = Error(ch.head, "AssertionError")
               /\ UNCHANGED << _connections, _region, _site_path >>
           ELSE
               /\ _region' = Some(From(ch.head, 8))
               /\ UNCHANGED << pc, err, _connections, _site_path >>
       ELSE IF StartsWith(ch.head, << "S", "i", "t", "e", " ", "p", "a", "t", "h", " " >>) THEN
           IF ch.nsub > 0 THEN
               /\ pc' = "failed"
               /\ err' = Error(ch.head, "Site path entry should not have children")
               /\ UNCHANGED << _connections, _region, _site_path >>
           ELSE IF ~ch.isdir THEN
               /\ pc' = "failed"
               /\ err' = Error(ch.head, "Invalid site path")
               /\ UNCHANGED << _connections, _region, _site_path >>
           ELSE
               /\ _site_path' = Some(From(ch.head, 11))
               /\ UNCHANGED << pc, err, _connections, _region >>
       ELSE
           /\ pc' = "failed"
           /\ err' = Error(ch.head, "Invalid experiment entry")
           /\ UNCHANGED << _connections, _region, _site_path >>
    /\ UNCHANGED << fmt, electrodes, cells, _gaps, have_labels, have_connections, pipettes,
                    lims, predict_calls, extVars, cacheVars >>

\* _parse_labeling, one iteration of the loop over the lines of the section
OldLabelingLine(line) ==
    /\ pc = "labeling" /\ nlines < MaxLines
    /\ LET r == LabelLine(cells, line)
       IN  /\ cells' = r.cells
           /\ IF r.err = "" THEN UNCHANGED << pc, err >>
              ELSE pc' = "failed" /\ err' = Error(<< "L", "a", "b", "e", "l", "i", "n", "g" >>, r.err)
    /\ nlines' = nlines + 1
    /\ cur' = line
    /\ UNCHANGED << fmt, electrodes, _connections, _gaps, have_labels, have_connections,
                    _region, _site_path, nchildren, pipettes, heads, lims, predict_calls, extVars, cacheVars >>

\* _parse_labeling returns: have_labels = True
OldLabelingEnd ==
    /\ pc = "labeling"
    /\ have_labels' = TRUE
    /\ pc' = "children"
    /\ nlines' = 0
    /\ cur' = NoLine
    /\ UNCHANGED << fmt, err, electrodes, cells, _connections, _gaps, have_connections,
                    _region, _site_path, nchildren, pipettes, heads, lims, predict_calls, extVars, cacheVars >>

\* _parse_qc, one iteration of the loop over the lines of the section
OldQCLine(line) ==
    /\ pc = "qc" /\ nlines < MaxLines
    /\ LET r == QCLine(cells, line.head, line.parts)
       IN  /\ cells' = r.cells
           /\ IF r.err = "" THEN UNCHANGED << pc, err >>
              ELSE pc' = "failed" /\ err' = Error(<< "C", "e", "l", "l", " ", "Q", "C" >>, r.err)
    /\ nlines' = nlines + 1
    /\ cur' = line
    /\ UNCHANGED << fmt, electrodes, _connections, _gaps, have_labels, have_connections,
                    _region, _site_path, nchildren, pipettes, heads, lims, predict_calls, extVars, cacheVars >>

\* _parse_qc returns
OldQCEnd ==
    /\ pc = "qc"
    /\ pc' = "children"
    /\ nlines' = 0
    /\ cur' = NoLine
    /\ UNCHANGED << fmt, err, electrodes, cells, _connections, _gaps, have_labels,
                    have_connections, _region, _site_path, nchildren, pipettes, heads, lims, predict_calls, extVars,
                    cacheVars >>

\* _parse_connections, one line of the section: the test of the first line
\* against 'None' (line 551), then one iteration of the loop
OldConnectionLine(line) ==
    /\ pc = "connections" /\ nlines < MaxLines
    /\ nlines' = nlines + 1
    /\ cur' = line
    /\ IF nlines = 0 /\ line.text = << "N", "o", "n", "e" >> THEN
           /\ have_connections' = TRUE
           /\ pc' = "children"
           /\ UNCHANGED << err, _connections >>
       ELSE
           LET r == ConnectionLine(Val(_connections), line.text)
           IN  /\ _connections' = Some(r.conns)
               /\ IF r.err = "" THEN UNCHANGED << pc, err >>
                  ELSE pc' = "failed" /\ err' = Error(<< "C", "o", "n", "n", "e", "c", "t", "i", "o", "n", "s" >>, r.err)
               /\ UNCHANGED have_connections
    /\ UNCHANGED << fmt, electrodes, cells, _gaps, have_labels, _region, _site_path,
                    nchildren, pipettes, heads, lims, predict_calls, extVars, cacheVars >>

\* _parse_connections returns (an empty section returns at once):
\* have_connections = True
OldConnectionsEnd ==
    /\ pc = "connections"
    /\ have_connections' = TRUE
    /\ pc' = "children"
    /\ nlines' = 0
    /\ cur' = NoLine
    /\ UNCHANGED << fmt, err, electrodes, cells, _connections, _gaps, have_labels, _region,
                    _site_path, nchildren, pipettes, heads, lims, predict_calls, extVars, cacheVars >>

\* _load_old_format returning without the tests of lines 447-450
OldEndUnchecked ==
    /\ pc = "children"
    /\ pc' = "loaded"
    /\ nchildren' = 0
    /\ nlines' = 0
    /\ cur' = NoLine
    /\ UNCHANGED << fmt, err, electrodes, cells, _connections, _gaps, have_labels,
                    have_connections, _region, _site_path, pipettes, heads, lims, predict_calls, extVars, cacheVars >>

\* lines 447-450: both required sections must have been seen
OldEnd ==
    /\ pc = "children"
    /\ IF ~have_labels THEN
           pc' = "failed" /\ err' = Error(<< >>, "missing Labeling section")
       ELSE IF ~have_connections THEN
           pc' = "failed" /\ err' = Error(<< >>, "missing Connections section")
       ELSE
           pc' = "loaded" /\ UNCHANGED err
    /\ nchildren' = 0
    /\ nlines' = 0
    /\ cur' = NoLine
    /\ UNCHANGED << fmt, electrodes, cells, _connections, _gaps, have_labels,
                    have_connections, _region, _site_path, pipettes, heads, lims, predict_calls, extVars, cacheVars >>

(***************************************************************************)
(* _load_yml                                                               *)
(***************************************************************************)
\* pipettes of a YAML record
MaxPipettes == 2

Bool(b) == IF b THEN "True" ELSE "False"

\* lines 271-289, the loop over pip_meta['cell_labels'].items(), given as the
\* list of the (label, value) items: the labels and colors it leaves
RECURSIVE YmlLabels(_, _, _)
YmlLabels(items, labels, colors) ==
    IF items = << >> THEN [ err |-> "", labels |-> labels, colors |-> colors ]
    ELSE LET label == Head(items)[1]
             value == Head(items)[2]
             m == MatchLabelValue(value)
             absent == m.g1 = "x"
             positive == m.g2 = "+"
             uncertain == m.g3 = "?"
         IN  IF label \in DOMAIN labels THEN
                 [ err |-> "AssertionError", labels |-> labels, colors |-> colors ]
             ELSE IF value = << >> THEN YmlLabels(Tail(items), labels, colors)
             ELSE IF ~m.ok THEN
                 [ err |-> "Invalid label record", labels |-> labels, colors |-> colors ]
             ELSE IF label \in Range(ALL_LABELS) THEN
                 YmlLabels(Tail(items), DictSet(labels, label, Bool(positive)), colors)
             ELSE IF label \in { FLUOROPHORES[f] : f \in DOMAIN FLUOROPHORES } THEN
                 YmlLabels(Tail(items), labels,
                           DictSet(colors, label,
                                   IF absent \/ uncertain THEN None ELSE Bool(positive)))
             ELSE [ err |-> "Invalid label or fluorescent color", labels |-> labels,
                    colors |-> colors ]

\* dict.get(k, None)
DictGet(d, k) == IF k \in DOMAIN d THEN d[k] ELSE None

\* the predictions replace the labels of the cell
SetDriversOnly(labels, drivers, pred) == pred

\* lines 300-301: the drivers predicted by the genotype are written into labels
RECURSIVE SetDrivers(_, _, _)
SetDrivers(labels, drivers, pred) ==
    IF drivers = {} THEN labels
    ELSE LET d == CHOOSE x \in drivers : TRUE
         IN  SetDrivers(DictSet(labels, d, pred[d]), drivers \ {d}, pred)

\* lines 306-314 for one key of pip_meta['cell_qc']
YmlQCValue(qc_pass) ==
    IF qc_pass = << >> THEN [ err |-> "", val |-> None ]
    ELSE IF ~IsSubstring(qc_pass, << "+", "/", "-", "?" >>) THEN [ err |-> "ValueError", val |-> None ]
    ELSE [ err |-> "", val |-> Bool(IsSubstring(qc_pass, << "+", "/" >>)) ]

\* lines 303-317: the QC flags of the cell; gen is the outcome of
\* _generate_cell_qc ("True": (True, True, True), "False": (False, False,
\* False), anything else: it raises)
YmlQC(cell, pip, gen) ==
    IF pip.cell_qc # Nil THEN
        LET h == YmlQCValue(Val(pip.cell_qc).holding)
            a == YmlQCValue(Val(pip.cell_qc).access)
            s == YmlQCValue(Val(pip.cell_qc).spiking)
        IN  IF h.err # "" THEN [ err |-> h.err, cell |-> cell ]
            ELSE IF a.err # "" THEN [ err |-> a.err, cell |-> [ cell EXCEPT !.holding_qc = h.val ] ]
            ELSE IF s.err # "" THEN
                [ err |-> s.err,
                  cell |-> [ cell EXCEPT !.holding_qc = h.val, !.access_qc = a.val ] ]
            ELSE [ err |-> "",
                   cell |-> [ cell EXCEPT !.holding_qc = h.val, !.access_qc = a.val,
                                          !.spiking_qc = s.val ] ]
    ELSE IF gen \in { "True", "False" } THEN
        [ err |-> "", cell |-> [ cell EXCEPT !.holding_qc = gen, !.access_qc = gen,
                                             !.spiking_qc = gen ] ]
    ELSE [ err |-> "generate_cell_qc", cell |-> cell ]

\* lines 262-317, the cell of one pipette with data; pred is the result of
\* genotype.predict_driver_expression(colors)
YmlCell(pip_id, pip, pred, gen) ==
    LET c0 == [ NewCell(pip_id) EXCEPT
                  !.target_layer = IF pip.target_layer.has THEN Some(pip.target_layer.val)
                                   ELSE Some(<< >>) ]
        l  == YmlLabels(pip.cell_labels, EmptyDict, EmptyDict)
        c1 == [ c0 EXCEPT !.labels = l.labels ]
        dye == pip.internal_dye
        c2 == [ c1 EXCEPT !.labels = DictSet(@, dye, DictGet(l.colors, FLUOROPHORES[dye])) ]
        c3 == IF lims.organism = "mouse"
              THEN [ c2 EXCEPT !.labels = SetDrivers(@, DOMAIN pred, pred) ]
              ELSE c2
    IN  IF pip.target_layer.has /\ ~pip.target_layer.isstr THEN
            [ err |-> "Target layer must be str", cell |-> c0 ]
        ELSE IF l.err # "" THEN [ err |-> l.err, cell |-> c1 ]
        ELSE IF dye \notin DOMAIN FLUOROPHORES THEN [ err |-> "KeyError", cell |-> c1 ]
        ELSE IF lims.organism = "mouse" /\ lims.genotype = Nil THEN
            [ err |-> "Mouse specimen has no genotype", cell |-> c2 ]
        ELSE YmlQC(c3, pip, gen)

\* line 300: the calls of genotype.predict_driver_expression(colors) that the
\* iteration for one pipette makes, each with the cell and the colors it passes
YmlPredictCalls(pip_id, pip) ==
    LET l == YmlLabels(pip.cell_labels, EmptyDict, EmptyDict)
    IN  IF \/ pip.got_data = "False"
           \/ pip.target_layer.has /\ ~pip.target_layer.isstr
           \/ l.err # ""
           \/ pip.internal_dye \notin DOMAIN FLUOROPHORES
           \/ lims.organism # "mouse"
           \/ lims.genotype = Nil
        THEN << >>
        ELSE << [ cell_id |-> pip_id, colors |-> l.colors ] >>

\* the values predict_driver_expression may return for the genotype
Predictions == IF lims.genotype = Nil THEN { EmptyDict }
               ELSE [ Val(lims.genotype) -> { "True", "False", None } ]

\* lines 247-254: the pipette metadata file and the genotype are read; ok
\* tells whether both were found
YmlBegin(ok) ==
    /\ pc = "new" /\ fmt = "yml"
    /\ electrodes' = {}
    /\ _site_path' = Some(<< "s", "i", "t", "e" >>)
    /\ IF ok THEN pc' = "pipettes" /\ UNCHANGED err
       ELSE pc' = "failed" /\ err' = Error(<< >>, "external")
    /\ UNCHANGED << fmt, cells, _connections, _gaps, have_labels, have_connections, _region,
                    nchildren, nlines, cur, pipettes, heads, lims, predict_calls, extVars, cacheVars >>

\* lines 255-317, one iteration of the loop over pips.pipettes.items()
YmlPipette(pip, pred, gen) ==
    /\ pc = "pipettes" /\ nchildren < MaxPipettes
    /\ LET pip_id == nchildren + 1
           r == YmlCell(pip_id, pip, pred, gen)
       IN  /\ electrodes' = electrodes \cup { pip_id }
           /\ pipettes' = DictSet(pipettes, pip_id, pip)
           /\ IF pip.got_data = "False" THEN UNCHANGED << cells, pc, err >>
              ELSE /\ cells' = DictSet(cells, pip_id, r.cell)
                   /\ IF r.err = "" THEN UNCHANGED << pc, err >>
                      ELSE pc' = "failed" /\ err' = Error(<< >>, r.err)
    /\ nchildren' = nchildren + 1
    /\ cur' = NoLine
    /\ predict_calls' = predict_calls \o YmlPredictCalls(nchildren + 1, pip)
    /\ UNCHANGED << fmt, _connections, _gaps, have_labels, have_connections, _region,
                    _site_path, nlines, heads, lims, extVars, cacheVars >>

\* the loop over the pipettes is over
YmlPipettesEnd ==
    /\ pc = "pipettes"
    /\ pc' = "synapses"
    /\ nlines' = 0
    /\ UNCHANGED << fmt, err, electrodes, cells, _connections, _gaps, have_labels,
                    have_connections, _region, _site_path, nchildren, cur, pipettes, heads, lims, predict_calls, extVars,
                    cacheVars >>

\* lines 332-344, the loop over the entries of synapse_to or gap_to of the
\* cell cell_id; an entry is an int (isstr FALSE, int) or a string (isstr
\* TRUE, str)
RECURSIVE YmlPostIds(_, _, _, _)
YmlPostIds(conn_list, conns, cell_id, ids) ==
    IF conns = << >> THEN [ err |-> "", list |-> conn_list ]
    ELSE LET e == Head(conns)
             m == MatchPostId(e.str)
             post_id == IF e.isstr THEN ParseInt(m.g1) ELSE e.int
         IN  IF e.isstr /\ ~m.ok THEN [ err |-> "AttributeError", list |-> conn_list ]
             ELSE IF e.isstr /\ m.g2 = "?" THEN YmlPostIds(conn_list, Tail(conns), cell_id, ids)
             ELSE IF post_id \notin ids THEN [ err |-> "ValueError", list |-> conn_list ]
             ELSE YmlPostIds(Append(conn_list, << cell_id, post_id >>), Tail(conns), cell_id, ids)

\* lines 323-344 for one of ('synapse_to', '_connections'), ('gap_to', '_gaps'):
\* conns is pip_meta.get(src, None), dst the value of the attribute
YmlConnList(dst, conns, cell_id, ids) ==
    IF conns = Nil THEN [ err |-> "", dst |-> dst ]
    ELSE LET r == YmlPostIds(IF dst = Nil THEN << >> ELSE Val(dst), Val(conns), cell_id, ids)
         IN  [ err |-> r.err, dst |-> Some(r.list) ]

\* the cell ids in the order of iteration over self.cells
RECURSIVE SortedIds(_)
SortedIds(S) ==
    IF S = {} THEN << >>
    ELSE LET m == CHOOSE x \in S : \A y \in S : x <= y
         IN  << m >> \o SortedIds(S \ {m})

\* lines 320-344, one iteration of the loop over self.cells.values()
YmlCellConnections ==
    /\ pc = "synapses" /\ nlines < Cardinality(DOMAIN cells)
    /\ LET cell_id == SortedIds(DOMAIN cells)[nlines + 1]
           pip_meta == pipettes[cell_id]
           s == YmlConnList(_connections, pip_meta.synapse_to, cell_id, DOMAIN cells)
           g == YmlConnList(_gaps, pip_meta.gap_to, cell_id, DOMAIN cells)
       IN  /\ _connections' = s.dst
           /\ IF s.err # "" THEN
                  pc' = "failed" /\ err' = Error(<< >>, s.err) /\ UNCHANGED _gaps
              ELSE IF g.err # "" THEN
                  pc' = "failed" /\ err' = Error(<< >>, g.err) /\ _gaps' = g.dst
              ELSE UNCHANGED << pc, err >> /\ _gaps' = g.dst
    /\ nlines' = nlines + 1
    /\ UNCHANGED << fmt, electrodes, cells, have_labels, have_connections, _region,
                    _site_path, nchildren, cur, pipettes, heads, lims, predict_calls, extVars, cacheVars >>

\* _load_yml returns
YmlEnd ==
    /\ pc = "synapses" /\ nlines = Cardinality(DOMAIN cells)
    /\ pc' = "loaded"
    /\ nchildren' = 0
    /\ nlines' = 0
    /\ UNCHANGED << fmt, err, electrodes, cells, _connections, _gaps, have_labels,
                    have_connections, _region, _site_path, cur, pipettes, heads, lims, predict_calls, extVars, cacheVars >>

(***************************************************************************)
(* Derived views                                                           *)
(***************************************************************************)
\* Experiment.labels (lines 173-177): the labels of ALL_LABELS some cell has,
\* in the order of ALL_LABELS
ComputeLabels(cs) ==
    SelectSeq(ALL_LABELS, LAMBDA l : \E i \in DOMAIN cs : l \in DOMAIN cs[i].labels)

\* the set of cre types of the cells (lines 154-156)
CreTypeSet(cs) == { CreType(cs[i]) : i \in DOMAIN cs }

\* the sort key of line 157: ALL_CRE_TYPES.index(x.split(',')[0])
CreSortKey(t) == IndexOf(ALL_CRE_TYPES, t[1])

\* list(S): the elements of the set in any order
ListOfSet(S) ==
    { s \in [ 1..Cardinality(S) -> S ] : \A i, j \in DOMAIN s : i # j => s[i] # s[j] }

\* the lists sorted(list(S), key=CreSortKey) can return: S in any order that
\* the key admits (the order of elements with equal keys is the iteration
\* order of the set)
SortedCreTypes(S) ==
    { s \in [ 1..Cardinality(S) -> S ] :
        /\ \A i, j \in DOMAIN s : i # j => s[i] # s[j]
        /\ \A i, j \in DOMAIN s : i < j => CreSortKey(s[i]) <= CreSortKey(s[j]) }

\* connections_probed without the test of the postsynaptic cell's pass_qc
ProbedPairNoPostQC(cs, i, j) ==
    /\ ~(i = j)
    /\ ~(cs[i].spiking_qc # "True")
    /\ ~(CreType(cs[i]) = NoCreType \/ CreType(cs[j]) = NoCreType)

\* lines 604-620: the conditions under which the pair (i, j) is appended
ProbedPair(cs, i, j) ==
    /\ ~(i = j)
    /\ ~(cs[i].spiking_qc # "True")
    /\ ~(PassQC(cs[j]) # "True")
    /\ ~(CreType(cs[i]) = NoCreType \/ CreType(cs[j]) = NoCreType)

\* the pairs (i, j) in the order of the two nested loops over self.cells
AllPairs(ids) ==
    LET n == Len(ids)
    IN  [ k \in 1..(n * n) |-> << ids[((k - 1) \div n) + 1], ids[((k - 1) % n) + 1] >> ]

\* Experiment.connections_probed, computed (lines 603-620)
ComputeProbed(cs) ==
    SelectSeq(AllPairs(SortedIds(DOMAIN cs)), LAMBDA p : ProbedPair(cs, p[1], p[2]))

\* what connections_probed returns in this state (lines 602-622)
ProbedValue == IF _probed = Nil THEN ComputeProbed(cells) ELSE Val(_probed)

\* connections returning the curated calls unfiltered
UnfilteredCalls(calls, probed) == calls

\* [c for c in calls if c in probed] (lines 122, 142)
FilterCalls(calls, probed) == SelectSeq(calls, LAMBDA c : c \in Range(probed))

\* what connections returns in this state (lines 118-122): Nil or Some(list)
ConnectionsValue ==
    IF _connections = Nil THEN Nil ELSE Some(FilterCalls(Val(_connections), ProbedValue))

\* what gaps returns in this state (lines 138-142)
GapsValue == IF _gaps = Nil THEN Nil ELSE Some(FilterCalls(Val(_gaps), ProbedValue))

\* the key of summary() for the pair (i, j) (line 582)
SummaryKey(cs, i, j) ==
    << << cs[i].target_layer, CreType(cs[i]) >>, << cs[j].target_layer, CreType(cs[j]) >> >>

\* a summary entry that starts with one unconnected pair counted
CountedSummaryEntry == [ connected |-> 0, unconnected |-> 1, cdist |-> << >>, udist |-> << >> ]

\* line 584: the entry of a new key
NewSummaryEntry == [ connected |-> 0, unconnected |-> 0, cdist |-> << >>, udist |-> << >> ]

\* lines 580-590: the loop over connections_probed; cdist and udist collect
\* ci.distance(cj), kept here as the pair of positions
RECURSIVE SummaryLoop(_, _, _, _)
SummaryLoop(csum, cs, probed, connections) ==
    IF probed = << >> THEN csum
    ELSE LET i == Head(probed)[1]
             j == Head(probed)[2]
             typ == SummaryKey(cs, i, j)
             c0 == IF typ \in DOMAIN csum THEN csum ELSE DictSet(csum, typ, NewSummaryEntry)
             dist == << cs[i].position, cs[j].position >>
             c1 == IF << i, j >> \in Range(connections)
                   THEN [ c0 EXCEPT ![typ].connected = @ + 1, ![typ].cdist = Append(@, dist) ]
                   ELSE [ c0 EXCEPT ![typ].unconnected = @ + 1, ![typ].udist = Append(@, dist) ]
         IN  SummaryLoop(c1, cs, Tail(probed), connections)

EmptySummary == [ k \in {} |-> NewSummaryEntry ]

\* what summary() returns in this state (lines 576-592): Nil or Some(dict)
SummaryValue ==
    IF ConnectionsValue = Nil THEN Nil
    ELSE IF _summary = Nil
         THEN Some(SummaryLoop(EmptySummary, cells, ProbedValue, Val(ConnectionsValue)))
    ELSE _summary

(***************************************************************************)
(* Experiment.__init__ after the loader, and the reads of the views        *)
(***************************************************************************)
MissingLabel(cell, labels) == \E l \in Range(labels) : l \notin DOMAIN cell.labels

\* the validation without the test of the cre types (lines 67-70)
MissingCreNever(cell, cre_types) == FALSE

MissingCre(cell, cre_types) ==
    \E cre \in Range(cre_types) : \E crepart \in Range(cre) :
        crepart # unknown /\ crepart \notin DOMAIN cell.labels

\* lines 62-70: every cell has every label and every cre part; labels and
\* cre_types are computed and cached at their first read in the loop, and the
\* sort of cre_types raises AttributeError on the cre type None
Validate ==
    /\ pc = "loaded"
    /\ LET ids == SortedIds(DOMAIN cells)
           L == ComputeLabels(cells)
       IN  IF ids = << >> THEN
               pc' = "validated" /\ UNCHANGED << err, _labels, _cre_types >>
           ELSE IF MissingLabel(cells[ids[1]], L) THEN
               /\ pc' = "failed" /\ err' = Error(<< >>, "Cell is missing label")
               /\ _labels' = Some(L) /\ UNCHANGED _cre_types
           ELSE IF NoCreType \in CreTypeSet(cells) THEN
               /\ pc' = "failed" /\ err' = Error(<< >>, "AttributeError")
               /\ _labels' = Some(L) /\ UNCHANGED _cre_types
           ELSE \E sorted \in SortedCreTypes(CreTypeSet(cells)) :
               LET bad == { i \in DOMAIN cells :
                              MissingLabel(cells[i], L) \/ MissingCre(cells[i], sorted) }
                   first == CHOOSE i \in bad : \A k \in bad : i <= k
               IN  /\ _labels' = Some(L)
                   /\ _cre_types' = Some(sorted)
                   /\ IF bad = {} THEN pc' = "validated" /\ UNCHANGED err
                      ELSE IF MissingLabel(cells[first], L) THEN
                          pc' = "failed" /\ err' = Error(<< >>, "Cell is missing label")
                      ELSE pc' = "failed" /\ err' = Error(<< >>, "Cre type not in cell.labels")
    /\ UNCHANGED << fmt, parseVars, heads, lims, predict_calls, extVars, _probed, _summary >>

\* lines 72-86: the donor's age, the NWB file and the cell positions are
\* looked up; ok tells whether age and nwb_file were found, markers are the
\* cell ids of the markers of the mosaic file (none when it cannot be read)
FinishInit(ok, markers) ==
    /\ pc = "validated"
    /\ IF ~ok THEN pc' = "failed" /\ err' = Error(<< >>, "external") /\ UNCHANGED cells
       ELSE /\ pc' = "ready" /\ UNCHANGED err
            /\ cells' = [ i \in DOMAIN cells |->
                            IF i \in markers THEN [ cells[i] EXCEPT !.position = "pos" ]
                            ELSE cells[i] ]
    /\ UNCHANGED << fmt, electrodes, _connections, _gaps, have_labels, have_connections,
                    _region, _site_path, nchildren, nlines, cur, pipettes, heads, lims, predict_calls, extVars, cacheVars >>

\* a read of connections_probed, connections or gaps that computes the
\* probed pairs and caches them (lines 602-621); connections and gaps return
\* before reading connections_probed when their curated list is None
ReadProbed ==
    /\ pc = "ready" /\ _probed = Nil
    /\ _probed' = Some(ComputeProbed(cells))
    /\ UNCHANGED << fmt, pc, err, parseVars, heads, lims, predict_calls, extVars, _cre_types, _labels, _summary >>

\* a call of summary() that computes the summary and caches it (lines 576-592)
ReadSummary ==
    /\ pc = "ready" /\ _connections # Nil /\ _summary = Nil
    /\ _probed' = Some(ProbedValue)
    /\ _summary' = SummaryValue
    /\ UNCHANGED << fmt, pc, err, parseVars, heads, lims, predict_calls, extVars, _cre_types, _labels >>

\* a read of labels that computes and caches the view (lines 173-178): after
\* construction only an experiment without cells has the cache empty
ReadLabels ==
    /\ pc = "ready" /\ _labels = Nil
    /\ _labels' = Some(ComputeLabels(cells))
    /\ UNCHANGED << fmt, pc, err, parseVars, heads, lims, predict_calls, extVars, _cre_types, _probed, _summary >>

\* a read of cre_types that computes and caches the view (lines 153-158)
ReadCreTypes ==
    /\ pc = "ready" /\ _cre_types = Nil /\ NoCreType \notin CreTypeSet(cells)
    /\ \E sorted \in SortedCreTypes(CreTypeSet(cells)) : _cre_types' = Some(sorted)
    /\ UNCHANGED << fmt, pc, err, parseVars, heads, lims, predict_calls, extVars, _labels, _probed, _summary >>

(***************************************************************************)
(* Experiment.nwb_file (lines 745-766)                                     *)
(***************************************************************************)
\* os.path.dirname
Dirname(p) ==
    IF \E k \in DOMAIN p : p[k] = "/"
    THEN LET k == CHOOSE n \in DOMAIN p : p[n] = "/" /\ \A m \in (n + 1)..Len(p) : p[m] # "/"
         IN  SubSeq(p, 1, k - 1)
    ELSE << >>

\* os.path.join of a directory and a relative name
Join(a, b) == IF a = << >> THEN b ELSE a \o << "/" >> \o b

\* lines 759-762: the loop over the entries of the manifest; the value it
\* leaves in _nwb_file
RECURSIVE ManifestChoice(_, _)
ManifestChoice(path, manifest) ==
    IF manifest = << >> THEN Nil
    ELSE IF Head(manifest).category = "MIES physiology"
         THEN Some(Join(Dirname(path), Head(manifest).path))
         ELSE ManifestChoice(path, Tail(manifest))

\* lines 747-766 with _nwb_file None: lower and upper are the names that
\* glob('*.nwb') and glob('*.NWB') find in self.path, in the order glob gives
\* them, manifest is Nil (no file file_manifest.yml) or Some(list of its
\* entries); the exception raised or the value _nwb_file is left with and
\* that is returned
NwbFile(path, lower, upper, manifest) ==
    LET names == IF Len(lower) = 0 THEN upper ELSE lower
        files == [ k \in DOMAIN names |-> Join(path, names[k]) ]
        chosen == IF manifest # Nil THEN ManifestChoice(path, Val(manifest)) ELSE Nil
    IN  IF Len(files) = 0 THEN [ err |-> "No NWB file found", nwb_file |-> Nil ]
        ELSE IF Len(files) > 1 /\ chosen = Nil
             THEN [ err |-> "Multiple NWB files found", nwb_file |-> Nil ]
        ELSE [ err |-> "", nwb_file |-> Some(files[1]) ]

(***************************************************************************)
(* Experiment._generate_cell_qc (lines 346-396)                            *)
(***************************************************************************)
\* contents of a file of the file system: none, bytes that pickle.load
\* rejects, the beginning of a pickle, or the pickle of a dict
MissingFile == [ kind |-> "missing", dict |-> EmptyDict ]

CorruptFile == [ kind |-> "corrupt", dict |-> EmptyDict ]

PartialFile == [ kind |-> "partial", dict |-> EmptyDict ]

Pickle(d) == [ kind |-> "pickle", dict |-> d ]

\* a sweep of nwb.contents: whether it holds the channel, whether reading
\* it raises, the clamp mode, the baseline current in pA (Nil: None) and the
\* baseline potential in mV of its recording
Sweep(has, raises, mode, current, potential) ==
    [ has |-> has, raises |-> raises, clamp_mode |-> mode, baseline_current |-> current,
      baseline_potential |-> potential ]

\* before the loop no sweep has been read
NoSweep == Sweep(FALSE, FALSE, "vc", Nil, 0)

\* (holding_qc, access_qc, spiking_qc), all three equal
Flags(b) == << Bool(b), Bool(b), Bool(b) >>

\* lines 379 and 381: the number of sweeps that must pass
MinPassing == 5

\* line 373: the limit of the holding current, in pA
MaxHoldingCurrent == 800

\* line 377: the limits of the baseline potential, in mV
MinPotential == 0 - 75

MaxPotential == 0 - 50

\* abs()
Abs(x) == IF x < 0 THEN 0 - x ELSE x

\* the limits themselves pass as well
PassesHoldingInclusive(rec) ==
    IF rec.clamp_mode = "vc"
    THEN rec.baseline_current # Nil /\ Abs(Val(rec.baseline_current)) <= MaxHoldingCurrent
    ELSE rec.baseline_potential >= MinPotential /\ rec.baseline_potential <= MaxPotential

\* lines 372-378: the sweep counts as passed
PassesHolding(rec) ==
    IF rec.clamp_mode = "vc"
    THEN rec.baseline_current # Nil /\ Abs(Val(rec.baseline_current)) < MaxHoldingCurrent
    ELSE rec.baseline_potential > MinPotential /\ rec.baseline_potential < MaxPotential

(***************************************************************************)
(* The accessors path, slice_info, lims_record, nwb_file, genotype         *)
(***************************************************************************)
\* lines 677-686: the directories tried for the site, in this order
Candidates ==
    << << "r", "/", "d", "/", "s", "1" >>, << "r", "/", "V", "1", "/", "d", "/", "s", "1" >>, << "r", "/", "A", "L", "M", "/", "d", "/", "s", "1" >>, << "r", "/", "H", "u", "m", "a", "n", "/", "d", "/", "s", "1" >>, << "r", "/", ".", ".", "/", "b", "/", "V", "1", "/", "d", "/", "s", "1" >> >>

\* the cached fields of the accessors
Cached == [ site_path |-> _site_path, slice_info |-> _slice_info,
            lims_record |-> _lims_record, genotype |-> _genotype, nwb_file |-> _nwb_file ]

\* Experiment.path (lines 671-694) with the cached fields c; env.dirs is the
\* set of the candidates that are directories
Path(c, env) ==
    IF c.site_path # Nil THEN [ err |-> "", c |-> c ]
    ELSE IF env.dirs = {} THEN [ err |-> "Cannot find filesystem path", c |-> c ]
    ELSE LET k == CHOOSE n \in env.dirs : \A m \in env.dirs : n <= m
         IN  [ err |-> "", c |-> [ c EXCEPT !.site_path = Some(Candidates[k]) ] ]

\* Experiment.slice_info (lines 720-727); env.index tells whether the index
\* file of the slice exists, env.specimen_ID is what it holds
SliceInfo(c, env) ==
    IF c.slice_info # Nil THEN [ err |-> "", c |-> c ]
    ELSE LET p == Path(c, env)
         IN  IF p.err # "" THEN p
             ELSE IF ~env.index THEN [ err |-> "Cannot find slice index file", c |-> p.c ]
             ELSE [ err |-> "", c |-> [ p.c EXCEPT !.slice_info = Some(env.specimen_ID) ] ]

\* the cached value is looked up again on every read
LimsRecordUncached(c, env) ==
    LET si == SliceInfo(c, env)
    IN  IF si.err # "" THEN si
        ELSE IF ~(env.found /\ Strip(Val(si.c.slice_info)) = << "S", "1" >>)
             THEN [ err |-> "specimen not found", c |-> si.c ]
        ELSE [ err |-> "", c |-> [ si.c EXCEPT !.lims_record = Some(env.record) ] ]

\* Experiment.lims_record (lines 828-836) with specimen_id (lines 806-808);
\* env.found tells whether LIMS knows the specimen, env.record is its record
LimsRecord(c, env) ==
    IF c.lims_record # Nil THEN [ err |-> "", c |-> c ]
    ELSE LET si == SliceInfo(c, env)
         IN  IF si.err # "" THEN si
             ELSE IF ~(env.found /\ Strip(Val(si.c.slice_info)) = << "S", "1" >>)
                  THEN [ err |-> "specimen not found", c |-> si.c ]
             ELSE [ err |-> "", c |-> [ si.c EXCEPT !.lims_record = Some(env.record) ] ]

\* Experiment.genotype (lines 838-846); a specimen without genotype leaves
\* _genotype None
Genotype(c, env) ==
    IF c.genotype # Nil THEN [ err |-> "", c |-> c ]
    ELSE LET l == LimsRecord(c, env)
         IN  IF l.err # "" THEN l
             ELSE IF Val(l.c.lims_record).genotype = Nil THEN l
             ELSE [ err |-> "", c |-> [ l.c EXCEPT !.genotype = Val(l.c.lims_record).genotype ] ]

\* Experiment.nwb_file (lines 745-766); env.ls is what the directory holds
NwbFileRead(c, env) ==
    IF c.nwb_file # Nil THEN [ err |-> "", c |-> c ]
    ELSE LET p == Path(c, env)
         IN  IF p.err # "" THEN p
             ELSE LET r == NwbFile(Val(p.c.site_path), env.ls.lower, env.ls.upper,
                                   env.ls.manifest)
                  IN  [ err |-> r.err, c |-> [ p.c EXCEPT !.nwb_file = r.nwb_file ] ]

\* a read of the accessor name, whose result is r
Read(name, r) ==
    /\ fmt = "old" /\ pc = "children"
    /\ acc' = name
    /\ acc_err' = r.err
    /\ _site_path' = r.c.site_path
    /\ _slice_info' = r.c.slice_info
    /\ _lims_record' = r.c.lims_record
    /\ _genotype' = r.c.genotype
    /\ _nwb_file' = r.c.nwb_file
    /\ UNCHANGED << fmt, pc, err, electrodes, cells, _connections, _gaps, have_labels,
                    have_connections, _region, nchildren, nlines, cur, pipettes, heads, lims,
                    predict_calls, cacheVars, qcVars, memoVars >>

ReadPath(env) == Read("path", Path(Cached, env)) /\ UNCHANGED site_dir

ReadLimsRecord(env) == Read("lims_record", LimsRecord(Cached, env)) /\ UNCHANGED site_dir

ReadGenotype(env) == Read("genotype", Genotype(Cached, env)) /\ UNCHANGED site_dir

ReadNwbFile(env) ==
    /\ Read("nwb_file", NwbFileRead(Cached, env))
    /\ site_dir' = IF _nwb_file = Nil /\ Path(Cached, env).err = "" THEN Some(env.ls) ELSE Nil

(***************************************************************************)
(* Initial state: Experiment.__init__ lines 31-55                          *)
(***************************************************************************)
\* the LIMS records of the specimens: a human donor, a mouse without a
\* genotype, a mouse with a sim1 driver
LimsRecords ==
    { [ organism |-> "human", genotype |-> Nil ],
      [ organism |-> "mouse", genotype |-> Nil ],
      [ organism |-> "mouse", genotype |-> Some({ sim1 }) ] }

\* the fields the loaders and the views use
InitLoad ==
    /\ fmt \in { "old", "yml" }
    /\ lims \in LimsRecords
    /\ pc = "new"
    /\ err = NoError
    /\ electrodes = {}
    /\ cells = [ i \in {} |-> NewCell(0) ]
    /\ _connections = Nil
    /\ _gaps = Nil
    /\ have_labels = FALSE
    /\ have_connections = FALSE
    /\ _region = Nil
    /\ _site_path = Nil
    /\ nchildren = 0
    /\ nlines = 0
    /\ cur = NoLine
    /\ pipettes = [ i \in {} |-> 0 ]
    /\ heads = {}
    /\ predict_calls = << >>
    /\ _cre_types = Nil
    /\ _labels = Nil
    /\ _probed = Nil
    /\ _summary = Nil

\* the fields of the lazy accessors (lines 31-55), no call of
\* _generate_cell_qc running, no cache file
InitExt ==
    /\ _nwb_file = Nil
    /\ _slice_info = Nil
    /\ _lims_record = Nil
    /\ _genotype = Nil
    /\ acc = ""
    /\ acc_err = ""
    /\ site_dir = Nil
    /\ _target_layers = Nil
    /\ ret = [ view |-> "", value |-> Nil ]
    /\ first_read = EmptyDict
    /\ _data = None
    /\ cache_file = MissingFile
    /\ tmp_file = MissingFile
    /\ qc_pc = "idle"
    /\ ad_chan = 0
    /\ cache = EmptyDict
    /\ cache_key = Nil
    /\ passed_holding = 0
    /\ nsweeps = 0
    /\ ncalls = 0
    /\ at_call = MissingFile
    /\ srec = NoSweep
    /\ returned = EmptyDict
    /\ qc_ret = Nil

Init == InitLoad /\ InitExt

(***************************************************************************)
(* Inputs                                                                  *)
(*                                                                         *)
(* A family of inputs gives, for an old-format entry, the set its k-th     *)
(* child is drawn from (children[k]; the last set for every later child)   *)
(* and the sets the lines of its sections are drawn from, and for a YAML   *)
(* record the set its pipette records are drawn from.                      *)
(***************************************************************************)
Child(head) == [ head |-> head, nsub |-> 0, isdir |-> TRUE ]

Labeling == Child(<< "L", "a", "b", "e", "l", "i", "n", "g" >>)

CellQC == Child(<< "C", "e", "l", "l", " ", "Q", "C" >>)

Connections == Child(<< "C", "o", "n", "n", "e", "c", "t", "i", "o", "n", "s" >>)

ChildrenAt(in, k) == in.children[IF k <= Len(in.children) THEN k ELSE Len(in.children)]

\* 'sim1: 1+ 2- 3- 4- 5- 6- 7- 8-': every cell is labelled, cell 1 positive
LabelAllCells ==
    PartsLine("label", << "s", "i", "m", "1", ":" >>,
              << << "1", "+" >>, << "2", "-" >>, << "3", "-" >>, << "4", "-" >>, << "5", "-" >>, << "6", "-" >>, << "7", "-" >>, << "8", "-" >> >>)

CoreLabelLines == { LabelAllCells, PartsLine("label", << "s", "i", "m", "1", ":" >>, << << "1", "-" >> >>) }

\* 'Spiking: 1+ 2-' ...: one flag of cells 1 and 2, pass or fail
QCLine12(h, a, b) == PartsLine("qc", h, << << "1", a >>, << "2", b >> >>)

CoreQCLines ==
    { QCLine12(<< "S", "p", "i", "k", "i", "n", "g", ":" >>, "+", b) : b \in { "+", "-" } }
    \cup { QCLine12(<< "H", "o", "l", "d", "i", "n", "g", ":" >>, a, "+") : a \in { "+", "-" } }
    \cup { QCLine12(<< "A", "c", "c", "e", "s", "s", ":" >>, "+", b) : b \in { "+", "-" } }

CoreConnLines == { TextLine("conn", << "1", " ", "-", ">", " ", "2" >>), TextLine("conn", << "2", " ", "-", ">", " ", "3" >>) }

IntId(i) == [ isstr |-> FALSE, int |-> i, str |-> << >> ]

StrId(s) == [ isstr |-> TRUE, int |-> 0, str |-> s ]

Layer(l) == [ has |-> TRUE, isstr |-> TRUE, val |-> l ]

QC(h, a, s) == Some([ holding |-> h, access |-> a, spiking |-> s ])

Pip(got, layer, items, qc, syn, gap) ==
    [ got_data |-> got, target_layer |-> layer, cell_labels |-> items,
      internal_dye |-> af488, cell_qc |-> qc, synapse_to |-> syn, gap_to |-> gap ]

\* a pipette without data
NoData == Pip("False", Layer(<< "4" >>), << >>, Nil, Nil, Nil)

CorePipettes ==
    { Pip("True", Layer(<< "4" >>), << >>, qc, syn, Nil) :
        qc \in { QC(<< "+" >>, << "+" >>, << "+" >>), QC(<< "-" >>, << "+" >>, << "+" >>) },
        syn \in { Nil, Some(<< IntId(1) >>), Some(<< IntId(2) >>) } }
    \cup { NoData }

\* entries with the sections Labeling, Cell QC, Connections in this order
\* that set the QC flags of cells 1 and 2 and report connections among
\* cells 1, 2, 3; records whose pipettes pass or fail holding QC and report
\* synapses to pipettes 1 and 2
CoreInputs ==
    [ children |-> << { Labeling }, { CellQC }, { Connections } >>,
      labels |-> CoreLabelLines, qc |-> CoreQCLines, conns |-> CoreConnLines,
      pips |-> CorePipettes ]

\* the cell ids of the markers of a mosaic file
MosaicMarkers == { {}, 1..NumElectrodes }

(***************************************************************************)
(* Next-state relations                                                    *)
(***************************************************************************)
\* the loader, over the family of inputs in
NextLoad(in) ==
    \/ OldBegin
    \/ \E ch \in ChildrenAt(in, nchildren + 1) : OldChild(ch)
    \/ \E line \in in.labels : OldLabelingLine(line)
    \/ OldLabelingEnd
    \/ \E line \in in.qc : OldQCLine(line)
    \/ OldQCEnd
    \/ \E line \in in.conns : OldConnectionLine(line)
    \/ OldConnectionsEnd
    \/ OldEnd
    \/ \E ok \in BOOLEAN : YmlBegin(ok)
    \/ \E pip \in in.pips :
         \E pred \in (IF lims.organism = "mouse" THEN Predictions ELSE { EmptyDict }) :
           \E gen \in (IF pip.cell_qc = Nil /\ pip.got_data # "False"
                       THEN { "True", "False", "raise" } ELSE { "" }) :
             YmlPipette(pip, pred, gen)
    \/ YmlPipettesEnd
    \/ YmlCellConnections
    \/ YmlEnd

\* the rest of the constructor
NextInit ==
    \/ Validate
    \/ \E ok \in BOOLEAN : \E markers \in MosaicMarkers : FinishInit(ok, markers)

\* the reads of the derived views of a constructed experiment
NextViews ==
    \/ ReadProbed
    \/ ReadSummary
    \/ ReadLabels
    \/ ReadCreTypes

Next == NextLoad(CoreInputs) \/ NextInit \/ NextViews

Spec == Init /\ [][Next]_vars

(***************************************************************************)
(* The calls of _generate_cell_qc while a YAML record is loaded            *)
(***************************************************************************)
MaxCalls == 2

MaxSweeps == 6

loadVars == << fmt, pc, err, parseVars, heads, lims, predict_calls, cacheVars, accVars,
              memoVars >>

\* the local variables of a call that is over
LocalsGone ==
    cache' = EmptyDict /\ cache_key' = Nil /\ passed_holding' = 0 /\ nsweeps' = 0 /\ srec' = NoSweep

\* the call begins without reading the cache file
QCCallNoLoad(chan) ==
    /\ fmt = "yml" /\ pc = "pipettes" /\ qc_pc = "idle" /\ ncalls < MaxCalls
    /\ ad_chan' = chan
    /\ cache' = EmptyDict
    /\ at_call' = cache_file
    /\ ncalls' = ncalls + 1
    /\ qc_pc' = "key"
    /\ cache_key' = Nil /\ passed_holding' = 0 /\ nsweeps' = 0 /\ qc_ret' = Nil
    /\ srec' = NoSweep
    /\ UNCHANGED << loadVars, _nwb_file, _data, cache_file, tmp_file, returned >>

\* lines 349-357: the call _generate_cell_qc(chan) begins and loads the cache
\* file; a missing file and a file that pickle.load rejects leave cache = {}
QCCall(chan) ==
    /\ fmt = "yml" /\ pc = "pipettes" /\ qc_pc = "idle" /\ ncalls < MaxCalls
    /\ ad_chan' = chan
    /\ cache' = IF cache_file.kind = "pickle" THEN cache_file.dict ELSE EmptyDict
    /\ at_call' = cache_file
    /\ ncalls' = ncalls + 1
    /\ qc_pc' = "key"
    /\ cache_key' = Nil /\ passed_holding' = 0 /\ nsweeps' = 0 /\ qc_ret' = Nil
    /\ srec' = NoSweep
    /\ UNCHANGED << loadVars, _nwb_file, _data, cache_file, tmp_file, returned >>

\* the key is computed and not looked up: the call goes on as after a miss
QCKeyNoLookup(ls) ==
    /\ qc_pc = "key"
    /\ LET r == IF _nwb_file # Nil THEN [ err |-> "", nwb_file |-> _nwb_file ]
                ELSE NwbFile(Val(_site_path), ls.lower, ls.upper, ls.manifest)
       IN  /\ _nwb_file' = r.nwb_file
           /\ IF r.err # "" THEN qc_pc' = "raised" /\ LocalsGone
              ELSE LET key == << Val(r.nwb_file), ad_chan >>
                   IN  /\ cache_key' = Some(key)
                       /\ qc_pc' = "open"
                       /\ UNCHANGED << cache, passed_holding, nsweeps, srec >>
    /\ UNCHANGED << loadVars, _data, cache_file, tmp_file, ad_chan, ncalls, at_call, returned,
                    qc_ret >>

\* lines 359-360: cache_key = (self.nwb_file, ad_chan) and the lookup; ls is
\* what the directory of the site holds when nwb_file is resolved
QCKey(ls) ==
    /\ qc_pc = "key"
    /\ LET r == IF _nwb_file # Nil THEN [ err |-> "", nwb_file |-> _nwb_file ]
                ELSE NwbFile(Val(_site_path), ls.lower, ls.upper, ls.manifest)
       IN  /\ _nwb_file' = r.nwb_file
           /\ IF r.err # "" THEN qc_pc' = "raised" /\ LocalsGone
              ELSE LET key == << Val(r.nwb_file), ad_chan >>
                   IN  /\ cache_key' = Some(key)
                       /\ qc_pc' = IF key \in DOMAIN cache THEN "return" ELSE "open"
                       /\ UNCHANGED << cache, passed_holding, nsweeps, srec >>
    /\ UNCHANGED << loadVars, _data, cache_file, tmp_file, ad_chan, ncalls, at_call, returned,
                    qc_ret >>

\* lines 361-366: nwb = self.data opens the recording (lines 788-799), or
\* raises
QCOpen(ok) ==
    /\ qc_pc = "open"
    /\ IF ok THEN /\ _data' = "open" /\ qc_pc' = "loop"
                  /\ passed_holding' = 0 /\ nsweeps' = 0
                  /\ UNCHANGED << cache, cache_key, srec >>
       ELSE qc_pc' = "raised" /\ LocalsGone /\ UNCHANGED _data
    /\ UNCHANGED << loadVars, _nwb_file, cache_file, tmp_file, ad_chan, ncalls, at_call,
                    returned, qc_ret >>

\* lines 367-380, one iteration of the loop over nwb.contents: the sweep
\* lacks the channel, reading it raises, or it passes or fails the holding
\* check; the loop is left when MinPassing sweeps have passed
QCSweep(sw) ==
    /\ qc_pc = "loop" /\ nsweeps < MaxSweeps
    /\ nsweeps' = nsweeps + 1
    /\ srec' = sw
    /\ IF ~sw.has THEN UNCHANGED << passed_holding, qc_pc >>
       ELSE IF sw.raises THEN qc_pc' = "finally_raise" /\ UNCHANGED passed_holding
       ELSE LET n == IF PassesHolding(sw) THEN passed_holding + 1 ELSE passed_holding
            IN  /\ passed_holding' = n
                /\ qc_pc' = IF n >= MinPassing THEN "finally" ELSE "loop"
    /\ UNCHANGED << loadVars, _nwb_file, _data, cache_file, tmp_file, ad_chan, cache,
                    cache_key, ncalls, at_call, returned, qc_ret >>

\* line 367: nwb.contents has no more sweeps
QCLoopEnd ==
    /\ qc_pc = "loop"
    /\ qc_pc' = "finally"
    /\ UNCHANGED << loadVars, _nwb_file, _data, cache_file, tmp_file, ad_chan, cache,
                    cache_key, passed_holding, nsweeps, srec, ncalls, at_call, returned, qc_ret >>

\* the recording is left open
QCCloseNever ==
    /\ qc_pc \in { "finally", "finally_raise" }
    /\ IF qc_pc = "finally_raise" THEN qc_pc' = "raised" /\ LocalsGone
       ELSE /\ cache' = DictSet(cache, Val(cache_key), Flags(passed_holding >= MinPassing))
            /\ qc_pc' = "dump"
            /\ srec' = NoSweep
            /\ UNCHANGED << cache_key, passed_holding, nsweeps >>
    /\ UNCHANGED << loadVars, _nwb_file, _data, cache_file, tmp_file, ad_chan, ncalls, at_call,
                    returned, qc_ret >>

\* lines 381-388 and 802-804: the flags, the finally clause (close_data
\* closes the recording and resets _data) and, unless an exception is on its
\* way, the new entry of cache
QCClose ==
    /\ qc_pc \in { "finally", "finally_raise" }
    /\ _data' = None
    /\ IF qc_pc = "finally_raise" THEN qc_pc' = "raised" /\ LocalsGone
       ELSE /\ cache' = DictSet(cache, Val(cache_key), Flags(passed_holding >= MinPassing))
            /\ qc_pc' = "dump"
            /\ srec' = NoSweep
            /\ UNCHANGED << cache_key, passed_holding, nsweeps >>
    /\ UNCHANGED << loadVars, _nwb_file, cache_file, tmp_file, ad_chan, ncalls, at_call,
                    returned, qc_ret >>

\* line 391: open(tmp_file, 'wb') creates or truncates the temporary file
QCDumpOpen ==
    /\ qc_pc = "dump"
    /\ tmp_file' = PartialFile
    /\ qc_pc' = "dumping"
    /\ UNCHANGED << loadVars, _nwb_file, _data, cache_file, ad_chan, cache, cache_key,
                    passed_holding, nsweeps, srec, ncalls, at_call, returned, qc_ret >>

\* pickle.dump writes nothing more
QCDumpNothing ==
    /\ qc_pc = "dumping"
    /\ tmp_file' = PartialFile
    /\ qc_pc' = "remove"
    /\ UNCHANGED << loadVars, _nwb_file, _data, cache_file, ad_chan, cache, cache_key,
                    passed_holding, nsweeps, srec, ncalls, at_call, returned, qc_ret >>

\* line 391: pickle.dump has written cache
QCDump ==
    /\ qc_pc = "dumping"
    /\ tmp_file' = Pickle(cache)
    /\ qc_pc' = "remove"
    /\ UNCHANGED << loadVars, _nwb_file, _data, cache_file, ad_chan, cache, cache_key,
                    passed_holding, nsweeps, srec, ncalls, at_call, returned, qc_ret >>

\* lines 392-393: the cache file, if there is one, is removed
QCRemove ==
    /\ qc_pc = "remove"
    /\ cache_file' = MissingFile
    /\ qc_pc' = "rename"
    /\ UNCHANGED << loadVars, _nwb_file, _data, tmp_file, ad_chan, cache, cache_key,
                    passed_holding, nsweeps, srec, ncalls, at_call, returned, qc_ret >>

\* line 394: os.rename(tmp_file, cache_file)
QCRename ==
    /\ qc_pc = "rename"
    /\ cache_file' = tmp_file
    /\ tmp_file' = MissingFile
    /\ qc_pc' = "return"
    /\ UNCHANGED << loadVars, _nwb_file, _data, ad_chan, cache, cache_key, passed_holding,
                    nsweeps, srec, ncalls, at_call, returned, qc_ret >>

\* line 396: return cache[cache_key]
QCReturn ==
    /\ qc_pc = "return"
    /\ qc_ret' = Some(cache[Val(cache_key)])
    /\ returned' = IF Val(cache_key) \in DOMAIN returned THEN returned
                   ELSE DictSet(returned, Val(cache_key), cache[Val(cache_key)])
    /\ qc_pc' = "idle"
    /\ LocalsGone
    /\ UNCHANGED << loadVars, _nwb_file, _data, cache_file, tmp_file, ad_chan, ncalls, at_call >>

\* the process stops in the middle of a call: its memory is gone, the files
\* stay as they are
Crash ==
    /\ qc_pc \notin { "idle", "raised", "crashed" }
    /\ qc_pc' = "crashed"
    /\ returned' = EmptyDict
    /\ _nwb_file' = Nil
    /\ _data' = None
    /\ LocalsGone
    /\ UNCHANGED << loadVars, cache_file, tmp_file, ad_chan, ncalls, at_call, qc_ret >>

\* lines 31-55 and 247-254: after a call that raised or a crash, another
\* Experiment is constructed for the record and reaches the loop over the
\* pipettes
NewExperiment ==
    /\ qc_pc \in { "raised", "crashed" }
    /\ _nwb_file' = Nil
    /\ _data' = None
    /\ qc_pc' = "idle"
    /\ UNCHANGED << loadVars, cache_file, tmp_file, ad_chan, cache, cache_key, passed_holding,
                    nsweeps, srec, ncalls, at_call, returned, qc_ret >>

\* the channels of the amplifier
Channels == { 0, 1 }

\* sweeps without the channel, sweeps whose reading raises, voltage clamp
\* sweeps with an unknown holding current and with currents around the
\* limit, current clamp sweeps with potentials around the two limits
Sweeps ==
    { Sweep(FALSE, FALSE, "vc", Nil, 0), Sweep(TRUE, TRUE, "vc", Nil, 0),
      Sweep(TRUE, FALSE, "vc", Nil, 0) }
    \cup { Sweep(TRUE, FALSE, "vc", Some(i), 0) : i \in { 0 - 800, 0 - 799, 799, 800 } }
    \cup { Sweep(TRUE, FALSE, "ic", Nil, v) : v \in { 0 - 75, 0 - 74, 0 - 51, 0 - 50 } }

\* the directory of the site holds no recording, one, or another one
Listing(lower, upper, manifest) == [ lower |-> lower, upper |-> upper, manifest |-> manifest ]

QCListings ==
    { Listing(<< >>, << >>, Nil),
      Listing(<< << "a", ".", "n", "w", "b" >> >>, << >>, Nil),
      Listing(<< >>, << << "b", ".", "N", "W", "B" >> >>, Nil) }

\* the cache files a call may find: none, an unreadable one, an empty dict,
\* and dicts with the results of earlier runs
QCCacheFiles ==
    { MissingFile, CorruptFile, Pickle(EmptyDict),
      Pickle(DictSet(EmptyDict, << << "s", "i", "t", "e", "/", "a", ".", "n", "w", "b" >>, 0 >>, Flags(TRUE))),
      Pickle(DictSet(EmptyDict, << << "o", "t", "h", "e", "r", "/", "c", ".", "n", "w", "b" >>, 1 >>, Flags(FALSE))) }

InitQCCache ==
    /\ InitLoad /\ fmt = "yml" /\ lims.organism = "human"
    /\ _nwb_file = Nil
    /\ _slice_info = Nil
    /\ _lims_record = Nil
    /\ _genotype = Nil
    /\ acc = ""
    /\ acc_err = ""
    /\ site_dir = Nil
    /\ _target_layers = Nil
    /\ ret = [ view |-> "", value |-> Nil ]
    /\ first_read = EmptyDict
    /\ _data = None
    /\ cache_file \in QCCacheFiles
    /\ tmp_file \in { MissingFile, PartialFile }
    /\ qc_pc = "idle"
    /\ ad_chan = 0
    /\ cache = EmptyDict
    /\ cache_key = Nil
    /\ passed_holding = 0
    /\ nsweeps = 0
    /\ ncalls = 0
    /\ at_call = MissingFile
    /\ srec = NoSweep
    /\ returned = EmptyDict
    /\ qc_ret = Nil

NextQCCache ==
    \/ \E ok \in BOOLEAN : YmlBegin(ok)
    \/ \E chan \in Channels : QCCall(chan)
    \/ \E ls \in QCListings : QCKey(ls)
    \/ \E ok \in BOOLEAN : QCOpen(ok)
    \/ \E sw \in Sweeps : QCSweep(sw)
    \/ QCLoopEnd
    \/ QCClose
    \/ QCDumpOpen
    \/ QCDump
    \/ QCRemove
    \/ QCRename
    \/ QCReturn
    \/ Crash
    \/ NewExperiment

SpecQCCache == InitQCCache /\ [][NextQCCache]_vars

(***************************************************************************)
(* Reads of the views of a constructed experiment, and changes of its      *)
(* cells and curated lists by the caller                                   *)
(***************************************************************************)
MaxConnections == 2

\* a read of the view returns value
Observe(view, value) ==
    /\ ret' = [ view |-> view, value |-> value ]
    /\ first_read' = IF view \in DOMAIN first_read THEN first_read
                   ELSE DictSet(first_read, view, value)

\* the view is derived at every read
GetProbedUncached ==
    /\ pc = "ready"
    /\ _probed' = Some(ComputeProbed(cells))
    /\ Observe("connections_probed", Some(ComputeProbed(cells)))
    /\ UNCHANGED << fmt, pc, err, parseVars, heads, lims, predict_calls, _nwb_file, accVars,
                    qcVars, _target_layers, _cre_types, _labels, _summary >>

\* connections_probed (lines 599-622)
GetProbed ==
    /\ pc = "ready"
    /\ _probed' = Some(ProbedValue)
    /\ Observe("connections_probed", Some(ProbedValue))
    /\ UNCHANGED << fmt, pc, err, parseVars, heads, lims, predict_calls, _nwb_file, accVars,
                    qcVars, _target_layers, _cre_types, _labels, _summary >>

\* connections (lines 110-122)
GetConnections ==
    /\ pc = "ready"
    /\ _probed' = IF _connections = Nil THEN _probed ELSE Some(ProbedValue)
    /\ Observe("connections", ConnectionsValue)
    /\ UNCHANGED << fmt, pc, err, parseVars, heads, lims, predict_calls, _nwb_file, accVars,
                    qcVars, _target_layers, _cre_types, _labels, _summary >>

\* summary() (lines 563-592)
GetSummary ==
    /\ pc = "ready"
    /\ _probed' = IF _connections = Nil THEN _probed ELSE Some(ProbedValue)
    /\ _summary' = SummaryValue
    /\ Observe("summary", SummaryValue)
    /\ UNCHANGED << fmt, pc, err, parseVars, heads, lims, predict_calls, _nwb_file, accVars,
                    qcVars, _target_layers, _cre_types, _labels >>

\* labels (lines 170-178)
GetLabels ==
    /\ pc = "ready"
    /\ _labels' = IF _labels = Nil THEN Some(ComputeLabels(cells)) ELSE _labels
    /\ Observe("labels", _labels')
    /\ UNCHANGED << fmt, pc, err, parseVars, heads, lims, predict_calls, _nwb_file, accVars,
                    qcVars, _target_layers, _cre_types, _probed, _summary >>

\* cre_types (lines 150-158); the sort raises on the cre type None
GetCreTypes ==
    /\ pc = "ready"
    /\ IF _cre_types # Nil THEN UNCHANGED _cre_types
       ELSE /\ NoCreType \notin CreTypeSet(cells)
            /\ \E sorted \in SortedCreTypes(CreTypeSet(cells)) : _cre_types' = Some(sorted)
    /\ Observe("cre_types", _cre_types')
    /\ UNCHANGED << fmt, pc, err, parseVars, heads, lims, predict_calls, _nwb_file, accVars,
                    qcVars, _target_layers, _labels, _probed, _summary >>

\* target_layers (lines 160-168): list(set) gives the layers in any order
GetTargetLayers ==
    /\ pc = "ready"
    /\ IF _target_layers # Nil THEN UNCHANGED _target_layers
       ELSE \E l \in ListOfSet({ cells[i].target_layer : i \in DOMAIN cells }) :
              _target_layers' = Some(l)
    /\ Observe("target_layers", _target_layers')
    /\ UNCHANGED << fmt, pc, err, parseVars, heads, lims, predict_calls, _nwb_file, accVars,
                    qcVars, _cre_types, _labels, _probed, _summary >>

\* the caller sets a label or a QC flag of a cell (cell.labels[name] = value,
\* cell.spiking_qc = value), appends a pair to the curated connections or,
\* when there are none, sets them to a list of one pair; the value the last
\* read returned is then no longer the one being returned
Mutate(m) ==
    /\ pc = "ready"
    /\ IF m.kind = "label" THEN
           /\ m.cell \in DOMAIN cells
           /\ cells' = [ cells EXCEPT ![m.cell].labels = DictSet(@, m.name, m.value) ]
           /\ UNCHANGED _connections
       ELSE IF m.kind = "qc" THEN
           /\ m.cell \in DOMAIN cells
           /\ cells' = [ cells EXCEPT ![m.cell].spiking_qc = m.value ]
           /\ UNCHANGED _connections
       ELSE /\ _connections # Nil => Len(Val(_connections)) < MaxConnections
            /\ _connections' = IF _connections = Nil THEN Some(<< m.pair >>)
                               ELSE Some(Append(Val(_connections), m.pair))
            /\ UNCHANGED cells
    /\ ret' = [ view |-> "", value |-> Nil ]
    /\ UNCHANGED << fmt, pc, err, electrodes, _gaps, have_labels, have_connections, _region,
                    _site_path, nchildren, nlines, cur, pipettes, heads, lims, predict_calls,
                    _nwb_file, accVars, qcVars, _target_layers, first_read, cacheVars >>

Mutation(kind, cell, name, value, pair) ==
    [ kind |-> kind, cell |-> cell, name |-> name, value |-> value, pair |-> pair ]

\* cell 1 fails spiking QC, cell 2 becomes positive for sim1, the pair
\* (2, 1) is added to the curated connections
Mutations ==
    { Mutation("qc", 1, << >>, "False", << 0, 0 >>),
      Mutation("label", 2, sim1, "+", << 0, 0 >>),
      Mutation("calls", 0, << >>, "", << 2, 1 >>) }

\* entries whose cells 1 and 2 pass spiking QC, records whose cells pass QC;
\* cell 1 is connected to cell 2
MemoInputs ==
    [ children |-> << { Labeling }, { CellQC }, { Connections } >>,
      labels |-> { LabelAllCells },
      qc |-> { QCLine12(<< "S", "p", "i", "k", "i", "n", "g", ":" >>, "+", "+") },
      conns |-> { TextLine("conn", << "1", " ", "-", ">", " ", "2" >>) },
      pips |-> { Pip("True", Layer(<< "4" >>), << >>, QC(<< "+" >>, << "+" >>, << "+" >>), syn, Nil) :
                   syn \in { Nil, Some(<< IntId(2) >>) } } \cup { NoData } ]

NextMemo ==
    \/ Validate
    \/ \E ok \in BOOLEAN : FinishInit(ok, { })
    \/ GetProbed
    \/ GetConnections
    \/ GetSummary
    \/ GetLabels
    \/ GetCreTypes
    \/ GetTargetLayers
    \/ \E m \in Mutations : Mutate(m)

\* the experiment of a human donor
InitMemo == Init /\ lims.organism = "human"

SpecMemo == InitMemo /\ [][NextLoad(MemoInputs) \/ NextMemo]_vars

(***************************************************************************)
(* Properties of the derived views                                         *)
(***************************************************************************)
Constructed == pc = "ready"

\* C1: for every constructed experiment whose curated connection list
\* exists, every pair returned by connections is a member of
\* connections_probed
C1_ConnectionsWithinProbed ==
    Constructed =>
        LET connections == ConnectionsValue
        IN  connections # Nil => Range(Val(connections)) \subseteq Range(ProbedValue)

\* a constructed experiment whose connections returns a pair and leaves out
\* a curated call that was not probed
C1_Witness ==
    /\ Constructed /\ ConnectionsValue # Nil
    /\ Val(ConnectionsValue) # << >>
    /\ \E c \in Range(Val(_connections)) : c \notin Range(ProbedValue)

\* the sum over the keys k of csum of csum[k].connected + csum[k].unconnected
RECURSIVE SumCounts(_)
SumCounts(csum) ==
    IF DOMAIN csum = {} THEN 0
    ELSE LET k == CHOOSE x \in DOMAIN csum : TRUE
         IN  csum[k].connected + csum[k].unconnected
                 + SumCounts([ x \in (DOMAIN csum) \ {k} |-> csum[x] ])

\* C2 as stated: for every constructed experiment summary() is a mapping
\* whose counts sum to len(connections_probed)
C2_AsStated ==
    Constructed =>
        LET csum == SummaryValue
        IN  csum # Nil /\ SumCounts(Val(csum)) = Len(ProbedValue)

\* C2: for every constructed experiment whose curated connection list exists
\* (summary() returns None without one), the counts connected + unconnected
\* of summary() sum to len(connections_probed)
C2_SummaryCountsProbed ==
    Constructed =>
        LET csum == SummaryValue
        IN  csum # Nil => SumCounts(Val(csum)) = Len(ProbedValue)

\* a constructed experiment whose cached summary counts a connected and an
\* unconnected probed pair
C2_Witness ==
    /\ Constructed /\ _summary # Nil
    /\ \E k \in DOMAIN Val(_summary) : Val(_summary)[k].connected > 0
    /\ \E k \in DOMAIN Val(_summary) : Val(_summary)[k].unconnected > 0

\* C3: for every Cell Registry the loaders build, (i, j) is in
\* connections_probed (as a constructed experiment returns it, and as
\* computed from a registry under construction) if and only if i # j, cell i
\* has spiking_qc True, cell j has pass_qc True and both cells have a cre
\* type other than None
C3_ProbedIff ==
    LET probed == Range(IF Constructed THEN ProbedValue ELSE ComputeProbed(cells))
        determinate == { i \in DOMAIN cells : CreType(cells[i]) # NoCreType }
        pre == { i \in determinate : cells[i].spiking_qc = "True" }
        post == { j \in determinate : PassQC(cells[j]) = "True" }
    IN  \A i, j \in DOMAIN cells :
            << i, j >> \in probed <=> (i # j /\ i \in pre /\ j \in post)

\* a constructed experiment whose computed connections_probed holds (1, 2)
\* and leaves out (2, 1) because cell 1, which is not cell 2, fails pass_qc
\* while cell 2 passes spiking_qc
C3_Witness ==
    /\ Constructed /\ _probed # Nil
    /\ << 1, 2 >> \in Range(Val(_probed))
    /\ << 2, 1 >> \notin Range(Val(_probed))
    /\ cells[2].spiking_qc = "True" /\ PassQC(cells[1]) # "True"

(***************************************************************************)
(* The curated connection lists                                            *)
(***************************************************************************)
\* the decimal digit of n, for n in 0..9
Digit(n) == CHOOSE c \in Digits : DigitVal(c) = n

\* the line '<pre> -> <post>', '<pre> -> <post> ?' when tentative, followed
\* by the comment rest
ConnText(pre, post, tentative, rest) ==
    << Digit(pre) >> \o << " ", "-", ">", " " >> \o << Digit(post) >>
        \o (IF tentative THEN << " ", "?" >> ELSE << >>) \o rest

ConnComments == { << >>, << " ", "w", "e", "a", "k" >> }

\* a post id of synapse_to or gap_to given as the string '<post>' or '<post>?'
PostText(post, tentative) == << Digit(post) >> \o (IF tentative THEN << "?" >> ELSE << >>)

ConnInputLines ==
    { TextLine("conn", ConnText(1, 2, FALSE, << >>)),
      TextLine("conn", ConnText(2, 1, TRUE, << >>)),
      TextLine("conn", ConnText(2, 1, TRUE, << " ", "w", "e", "a", "k" >>)),
      TextLine("conn", ConnText(2, 1, FALSE, << " ", "w", "e", "a", "k" >>)),
      TextLine("conn", ConnText(9, 2, FALSE, << >>)),
      TextLine("conn", << "N", "o", "n", "e" >>) }

ConnPipettes ==
    { Pip("True", Layer(<< "4" >>), << >>, QC(<< "+" >>, << "+" >>, << "+" >>), syn, gap) :
        syn \in { Nil, Some(<< IntId(2) >>), Some(<< StrId(PostText(2, TRUE)), IntId(1) >>),
                  Some(<< IntId(2), StrId(PostText(2, FALSE)) >>) },
        gap \in { Nil, Some(<< StrId(PostText(1, TRUE)) >>), Some(<< IntId(1), IntId(1) >>) } }
    \cup { NoData }

\* entries whose Connections section holds plain, tentative, commented and
\* repeated lines and a line naming cell 9; records whose synapse_to and
\* gap_to hold ints, strings, tentative strings and repeated ids
ConnInputs ==
    [ children |-> << { Labeling }, { CellQC }, { Connections } >>,
      labels |-> { LabelAllCells },
      qc |-> { QCLine12(<< "S", "p", "i", "k", "i", "n", "g", ":" >>, "+", "+") },
      conns |-> ConnInputLines,
      pips |-> ConnPipettes ]

SpecConns == Init /\ [][NextLoad(ConnInputs) \/ NextInit]_vars

Loaded == pc \in { "loaded", "validated", "ready" }

CuratedLists == { l \in { _connections, _gaps } : l # Nil }

\* C4 as stated: no constructed experiment has a curated connection or gap
\* whose pre- or postsynaptic cell id is not a key of cells
C4_AsStated ==
    Constructed =>
        \A l \in CuratedLists : \A c \in Range(Val(l)) :
            c[1] \in DOMAIN cells /\ c[2] \in DOMAIN cells

\* the entries of conns that are not of the form '<digits>?'
Definite(conns) == SelectSeq(conns, LAMBDA e : ~(e.isstr /\ e.str[Len(e.str)] = "?"))

\* the pairs (cell_id, post) of the entries of conns, in order
PairsOf(cell_id, conns) ==
    [ k \in DOMAIN conns |->
        << cell_id, IF conns[k].isstr THEN ParseInt(conns[k].str) ELSE conns[k].int >> ]

\* the pairs of the definite entries of the field src ("synapse_to" or
\* "gap_to") of the pipettes of the cells ids, in the order of the cells
RECURSIVE DefinitePairs(_, _)
DefinitePairs(src, ids) ==
    IF ids = << >> THEN << >>
    ELSE LET pip == pipettes[Head(ids)]
             conns == IF src = "synapse_to" THEN pip.synapse_to ELSE pip.gap_to
         IN  (IF conns = Nil THEN << >> ELSE PairsOf(Head(ids), Definite(Val(conns))))
                 \o DefinitePairs(src, Tail(ids))

\* C5: a tentative entry is never added to a curated list and every other
\* entry is appended as the ordered pair (pre, post): an old-format line
\* '<pre> -> <post> ?' with or without a comment leaves the list as it was
\* and a line '<pre> -> <post>' appends (pre, post); the lists of a loaded
\* YAML record hold the pairs of the entries of synapse_to and gap_to that are
\* not of the form '<digits>?', in order, and nothing else
C5_TentativeDropped ==
    /\ [][ (pc = "connections" /\ pc' = "connections" /\ nlines' = nlines + 1) =>
             \A pre, post \in 0..9 : \A rest \in ConnComments :
                 /\ cur'.text = ConnText(pre, post, TRUE, rest)
                        => _connections' = _connections
                 /\ cur'.text = ConnText(pre, post, FALSE, rest)
                        => _connections' = Some(Append(Val(_connections), << pre, post >>)) ]_vars
    /\ [](fmt = "yml" /\ Loaded =>
             /\ _connections # Nil
                    => Val(_connections) = DefinitePairs("synapse_to", SortedIds(DOMAIN cells))
             /\ _gaps # Nil
                    => Val(_gaps) = DefinitePairs("gap_to", SortedIds(DOMAIN cells)))

\* the section parser has appended (1, 2) and then read the tentative line
\* '2 -> 1 ? weak'
C5_Witness ==
    /\ pc = "connections"
    /\ cur.text = ConnText(2, 1, TRUE, << " ", "w", "e", "a", "k" >>)
    /\ _connections = Some(<< << 1, 2 >> >>)

NoRepeat(l) == \A i, j \in DOMAIN l : i # j => l[i] # l[j]

\* C6 as stated: after parsing, an ordered pair appears at most once in the
\* curated connection list and at most once in the curated gap list
C6_AsStated == Loaded => \A l \in CuratedLists : NoRepeat(Val(l))

(***************************************************************************)
(* Label markers and the validation of the labels                          *)
(***************************************************************************)
\* the line '<name>: <parts>'
LabelLineOf(name, parts) == PartsLine("label", name \o << ":" >>, parts)

\* '<name>: 1+ 2+ 3+ 4+ 5+ 6+ 7+ 8+'
AllPositive(name) ==
    LabelLineOf(name, [ i \in 1..NumElectrodes |-> << Digit(i), "+" >> ])

\* 'biocytin: 1+ 2+ 3+ 4+ 5y 6+ 7+ 8+'
Biocytin5y ==
    LabelLineOf(biocytin, [ i \in 1..NumElectrodes |->
                              << Digit(i), IF i = 5 THEN "y" ELSE "+" >> ])

LabelInputLines ==
    { LabelAllCells,
      AllPositive(biocytin),
      Biocytin5y,
      LabelLineOf(biocytin, << << "3", "+" >> >>),
      LabelLineOf(sim1, << << "3", "+" >> >>),
      LabelLineOf(sim1, << << "4", "x", "?" >> >>),
      LabelLineOf(sim1, << << "5", "y" >> >>),
      LabelLineOf(sim1, << << "y" >> >>),
      LabelLineOf(sim1, << << "?" >> >>) }

LabelPipettes ==
    { Pip("True", Layer(<< "4" >>), items, QC(<< "+" >>, << "+" >>, << "+" >>), Nil, Nil) :
        items \in { << >>,
                    << << biocytin, << "+" >> >> >>,
                    << << biocytin, << "x", "?" >> >> >>,
                    << << biocytin, << "y" >> >> >>,
                    << << biocytin, << >> >> >>,
                    << << green, << "+" >> >> >>,
                    << << << "b", "a", "d" >>, << "+" >> >> >> } }
    \cup { NoData }

\* entries whose Labeling section labels all cells or single cells, with
\* well-formed and malformed markers; records whose cell_labels hold
\* well-formed, malformed and empty values, a color and an unknown name
LabelInputs ==
    [ children |-> << { Labeling }, { CellQC }, { Connections } >>,
      labels |-> LabelInputLines,
      qc |-> { QCLine12(<< "S", "p", "i", "k", "i", "n", "g", ":" >>, "+", "+") },
      conns |-> { TextLine("conn", ConnText(1, 2, FALSE, << >>)) },
      pips |-> LabelPipettes ]

SpecLabels == Init /\ [][NextLoad(LabelInputs) \/ NextInit]_vars

\* the markers of the grammar (x)?(+|-)?(?)?
Markers ==
    { x \o s \o q : x \in { << >>, << "x" >> }, s \in { << >>, << "+" >>, << "-" >> },
                    q \in { << >>, << "?" >> } }

\* part is cell-id digits followed by a marker and nothing else
ValidLabelToken(part) ==
    \E n \in 1..Len(part) :
        /\ \A k \in 1..n : part[k] \in Digits
        /\ From(part, n + 1) \in Markers

\* C7 as stated: a label marker that does not match the marker grammar in
\* full is an error and aborts construction: no part of a line of the
\* Labeling section that was parsed without an error (other than the lone
\* part '?') and no cell_labels value of a cell of a constructed experiment
\* is anything but a well-formed marker
C7_AsStated ==
    /\ (pc = "labeling" /\ cur.kind = "label" /\ cur.parts # << << "?" >> >>)
           => \A k \in DOMAIN cur.parts : ValidLabelToken(cur.parts[k])
    /\ (fmt = "yml" /\ Constructed)
           => \A i \in DOMAIN cells : \A k \in DOMAIN pipettes[i].cell_labels :
                  pipettes[i].cell_labels[k][2] \in Markers

\* the components other than 'unknown' of the cre types of the cells
CreParts(cs) == { part \in UNION { Range(t) : t \in CreTypeSet(cs) } : part # unknown }

\* C9: construction gets past the validation only if every cell has an
\* entry in labels for every name of the labels view and for every component
\* other than 'unknown' of every cre type of the experiment
C9_LabelsCoverCells ==
    pc \in { "validated", "ready" } =>
        \A i \in DOMAIN cells :
            /\ \A l \in Range(ALL_LABELS) :
                   (\E j \in DOMAIN cells : l \in DOMAIN cells[j].labels)
                       => l \in DOMAIN cells[i].labels
            /\ CreParts(cells) \subseteq DOMAIN cells[i].labels

\* an experiment past the validation whose labels view and cre types name
\* biocytin and sim1, which every one of its several cells has
C9_Witness ==
    /\ pc = "validated"
    /\ Cardinality(DOMAIN cells) > 1
    /\ _labels # Nil /\ biocytin \in Range(Val(_labels))
    /\ sim1 \in CreParts(cells)

(***************************************************************************)
(* The sections of an old-format entry                                     *)
(***************************************************************************)
SectionChildren ==
    { Labeling, CellQC, Connections,
      Child(<< "C", "o", "n", "d", "i", "t", "i", "o", "n", "s" >>),
      Child(<< "L", "a", "b", "e", "l", "l", "i", "n", "g" >>),
      Child(<< "R", "e", "g", "i", "o", "n", " ", "V", "1" >>),
      [ head |-> << "R", "e", "g", "i", "o", "n", " ", "V", "1" >>, nsub |-> 1, isdir |-> TRUE ],
      Child(<< "S", "i", "t", "e", " ", "p", "a", "t", "h", " ", "p" >>),
      [ head |-> << "S", "i", "t", "e", " ", "p", "a", "t", "h", " ", "p" >>, nsub |-> 0, isdir |-> FALSE ] }

\* entries with any children in any order, their sections short; records
\* with one kind of pipette
SectionInputs ==
    [ children |-> << SectionChildren >>,
      labels |-> { LabelAllCells },
      qc |-> { QCLine12(<< "S", "p", "i", "k", "i", "n", "g", ":" >>, "+", "+") },
      conns |-> { TextLine("conn", ConnText(1, 2, FALSE, << >>)), TextLine("conn", << "N", "o", "n", "e" >>) },
      pips |-> { Pip("True", Layer(<< "4" >>), << >>, QC(<< "+" >>, << "+" >>, << "+" >>), Nil, Nil), NoData } ]

SpecSections == Init /\ [][NextLoad(SectionInputs) \/ NextInit]_vars

\* C8: when the loop over the children of an old-format entry is over, an
\* entry without a Labeling child fails with the error that names Labeling,
\* one with a Labeling and without a Connections child fails with the error
\* that names Connections, and one with both is loaded with a curated list;
\* a Connections section that is empty or whose first line is 'None' leaves
\* the curated list empty, not None
C8_RequiredSections ==
    /\ [][ (pc = "children" /\ pc' # "children" /\ nchildren' = 0) =>
             /\ Labeling.head \notin heads
                    => pc' = "failed" /\ err'.kind = "missing Labeling section"
             /\ (Labeling.head \in heads /\ Connections.head \notin heads)
                    => pc' = "failed" /\ err'.kind = "missing Connections section"
             /\ (Labeling.head \in heads /\ Connections.head \in heads)
                    => pc' = "loaded" /\ err' = NoError /\ _connections' # Nil ]_vars
    /\ [][ (pc = "connections" /\ pc' = "children" /\ nlines = 0)
               => _connections' = Some(<< >>) ]_vars

\* an entry with a Labeling and a Cell QC section and no Connections section
\* has failed with the error that names Connections
C8_Witness ==
    /\ pc = "failed" /\ err.kind = "missing Connections section"
    /\ heads = { Labeling.head, CellQC.head }

(***************************************************************************)
(* QC markers                                                              *)
(***************************************************************************)
QCMarkers == { "+", "/", "-", "?" }

QCInputLines ==
    { PartsLine("qc", h, << << "1", m >> >>) :
        h \in { << "H", "o", "l", "d", "i", "n", "g", ":" >>, << "A", "c", "c", "e", "s", "s", ":" >>, << "S", "p", "i", "k", "i", "n", "g", ":" >> }, m \in QCMarkers }

QCPipettes ==
    { Pip("True", Layer(<< "4" >>), << >>, QC(h, << "+" >>, s), Nil, Nil) :
        h \in { << m >> : m \in QCMarkers } \cup { << >> }, s \in { << "/" >>, << "?" >> } }
    \cup { NoData }

\* entries whose Cell QC section sets the flags of cell 1 with each of the
\* markers; records whose cell_qc holds each of the markers and ''
QCInputs ==
    [ children |-> << { Labeling }, { CellQC }, { Connections } >>,
      labels |-> { LabelAllCells },
      qc |-> QCInputLines,
      conns |-> { TextLine("conn", ConnText(1, 2, FALSE, << >>)) },
      pips |-> QCPipettes ]

SpecQC == Init /\ [][NextLoad(QCInputs) \/ NextInit]_vars

\* the flag a QC marker stands for: '+' and '/' pass, '-' fails, '?' and ''
\* (unset) are unknown
MarkerFlag(m) ==
    IF m \in { << "+" >>, << "/" >> } THEN "True" ELSE IF m = << "-" >> THEN "False" ELSE None

\* the flag of the cell that the line headed head sets
FlagOf(cell, head) ==
    IF head = << "H", "o", "l", "d", "i", "n", "g", ":" >> THEN cell.holding_qc
    ELSE IF head = << "A", "c", "c", "e", "s", "s", ":" >> THEN cell.access_qc
    ELSE cell.spiking_qc

\* C10 as stated: a QC marker sets the flag it stands for, in both formats:
\* after a line of the Cell QC section each cell it names has the flag of
\* its marker, and a cell loaded from a record with cell_qc has the flags of
\* the three markers
C10_AsStated ==
    /\ (pc = "qc" /\ cur.kind = "qc")
           => \A k \in DOMAIN cur.parts :
                  FlagOf(cells[ParseInt(<< cur.parts[k][1] >>)], cur.head)
                      = MarkerFlag(<< cur.parts[k][2] >>)
    /\ (fmt = "yml" /\ pc \in { "pipettes", "synapses", "loaded", "validated", "ready" })
           => \A i \in DOMAIN cells :
                  pipettes[i].cell_qc # Nil =>
                      /\ cells[i].holding_qc = MarkerFlag(Val(pipettes[i].cell_qc).holding)
                      /\ cells[i].access_qc = MarkerFlag(Val(pipettes[i].cell_qc).access)
                      /\ cells[i].spiking_qc = MarkerFlag(Val(pipettes[i].cell_qc).spiking)

\* the markers other than '?' set the flag they stand for: '+' and '/' set it
\* True, '-' sets it False and an unset cell_qc value leaves it None
DefiniteMarkersSetFlags ==
    /\ (pc = "qc" /\ cur.kind = "qc")
           => \A k \in DOMAIN cur.parts :
                  cur.parts[k][2] # "?" =>
                      FlagOf(cells[ParseInt(<< cur.parts[k][1] >>)], cur.head)
                          = MarkerFlag(<< cur.parts[k][2] >>)
    /\ (fmt = "yml" /\ pc \in { "pipettes", "synapses", "loaded", "validated", "ready" })
           => \A i \in DOMAIN cells :
                  pipettes[i].cell_qc # Nil =>
                      LET qc == Val(pipettes[i].cell_qc)
                      IN  /\ qc.holding # << "?" >> => cells[i].holding_qc = MarkerFlag(qc.holding)
                          /\ qc.access # << "?" >> => cells[i].access_qc = MarkerFlag(qc.access)
                          /\ qc.spiking # << "?" >> => cells[i].spiking_qc = MarkerFlag(qc.spiking)

(***************************************************************************)
(* The genotype's predictions in a YAML record                             *)
(***************************************************************************)
\* records whose cell_labels declare a label, the dye, a color in each of its
\* states, or a label and a color
GenotypeItems ==
    { << >>,
      << << biocytin, << "+" >> >> >>,
      << << biocytin, << "-" >> >> >>,
      << << af488, << "-" >> >> >>,
      << << green, << "+" >> >> >>,
      << << green, << "x" >> >> >>,
      << << red, << "+", "?" >> >> >>,
      << << red, << >> >> >>,
      << << biocytin, << "+" >> >>, << green, << "-" >> >> >>,
      << << green, << "+" >> >>, << biocytin, << "x", "-" >> >> >>,
      << << biocytin, << "+" >> >>, << << "b", "a", "d" >>, << "+" >> >> >> }

GenotypePipettes ==
    { Pip("True", Layer(<< "4" >>), items, QC(<< "+" >>, << "+" >>, << "+" >>), Nil, Nil) :
        items \in GenotypeItems }
    \cup { NoData }

GenotypeInputs ==
    [ children |-> << { Labeling }, { CellQC }, { Connections } >>,
      labels |-> { LabelAllCells },
      qc |-> { QCLine12(<< "S", "p", "i", "k", "i", "n", "g", ":" >>, "+", "+") },
      conns |-> { TextLine("conn", ConnText(1, 2, FALSE, << >>)) },
      pips |-> GenotypePipettes ]

SpecGenotype == Init /\ [][NextLoad(GenotypeInputs) \/ NextInit]_vars

\* the names of the colors
AllColors == { FLUOROPHORES[f] : f \in DOMAIN FLUOROPHORES }

\* the items of a record that declare a value for a name of the set names
Declared(items, names) ==
    { k \in DOMAIN items : items[k][1] \in names /\ items[k][2] # << >> }

\* a well-formed marker says positive
MarkerPositive(value) == value \in { << "+" >>, << "x", "+" >>, << "+", "?" >>, << "x", "+", "?" >> }

\* a well-formed marker says absent or uncertain
MarkerUnknown(value) == value # << >> /\ (Head(value) = "x" \/ value[Len(value)] = "?")

\* the colors a record declares, each with its state
DeclaredColors(items) ==
    [ c \in { items[k][1] : k \in Declared(items, AllColors) } |->
        LET value == items[CHOOSE k \in Declared(items, AllColors) : items[k][1] = c][2]
        IN  IF MarkerUnknown(value) THEN None ELSE Bool(MarkerPositive(value)) ]

\* the calls of predict_driver_expression for the cell i
CallsFor(i) == { k \in DOMAIN predict_calls : predict_calls[k].cell_id = i }

PositiveAt(name, P) ==
    LabelLineOf(name, [ i \in 1..NumElectrodes |->
                          << Digit(i), IF i \in P THEN "+" ELSE "-" >> ])

\* entries whose cells express sim1, pvalb, both or neither, the later driver
\* in cells that come first
CreInputs ==
    [ children |-> << { Labeling }, { CellQC }, { Connections } >>,
      labels |-> { PositiveAt(sim1, { 1 }), PositiveAt(sim1, { 3 }),
                   PositiveAt(pvalb, { 1, 2 }) },
      qc |-> { QCLine12(<< "S", "p", "i", "k", "i", "n", "g", ":" >>, "+", "+") },
      conns |-> { TextLine("conn", ConnText(1, 2, FALSE, << >>)) },
      pips |-> CorePipettes ]

SpecCre == Init /\ [][NextLoad(CreInputs) \/ NextInit \/ NextViews]_vars

\* the position in ALL_CRE_TYPES of the first component of a cre type
FirstComponentIndex(t) ==
    CHOOSE n \in DOMAIN ALL_CRE_TYPES :
        ALL_CRE_TYPES[n] = Head(t) /\ \A m \in 1..(n - 1) : ALL_CRE_TYPES[m] # Head(t)

\* C12: the list a read of cre_types returned holds exactly the cre types of
\* the cells, each once, and the positions in ALL_CRE_TYPES of the first
\* components never decrease along the list, whatever the order of the cells
C12_CreTypesSorted ==
    _cre_types # Nil =>
      LET l == Val(_cre_types)
      IN  /\ Range(l) = { CreType(cells[i]) : i \in DOMAIN cells }
          /\ \A i, j \in DOMAIN l : i # j => l[i] # l[j]
          /\ \A i, j \in DOMAIN l :
               i < j => FirstComponentIndex(l[i]) <= FirstComponentIndex(l[j])

\* cre_types was read of an experiment in which a cell with a later cre type
\* comes before a cell with an earlier one and two cells share a cre type
C12_Witness ==
    /\ _cre_types # Nil /\ Len(Val(_cre_types)) >= 2
    /\ \E i, j \in DOMAIN cells :
         /\ i < j
         /\ FirstComponentIndex(CreType(cells[i])) > FirstComponentIndex(CreType(cells[j]))
    /\ \E i, j \in DOMAIN cells : i # j /\ CreType(cells[i]) = CreType(cells[j])

(***************************************************************************)
(* The cache of the derived QC flags                                       *)
(***************************************************************************)
\* C13: a call of _generate_cell_qc for a key for which a call has returned
\* before (with no crash of the process in between) does not open the
\* recording and returns what the earlier call returned
C13_SecondCallFromCache ==
    /\ [][(_data = None /\ _data' = "open") => Val(cache_key) \notin DOMAIN returned]_vars
    /\ [][(qc_pc = "return" /\ qc_pc' = "idle" /\ Val(cache_key) \in DOMAIN returned)
            => qc_ret' = Some(returned[Val(cache_key)])]_vars

\* a second call for a key, which the first one derived from the recording,
\* is about to return
C13_Witness ==
    /\ qc_pc = "return" /\ ncalls >= 2 /\ _data = None
    /\ Val(cache_key) \in DOMAIN returned
    /\ cache[Val(cache_key)] = returned[Val(cache_key)]
    /\ \A f \in QCCacheFiles : Val(cache_key) \notin DOMAIN f.dict

(***************************************************************************)
(* Reads of the accessors of an old-format experiment                      *)
(***************************************************************************)
ManifestEntry(category, path) == [ category |-> category, path |-> path ]

\* a manifest whose second entry names the recording b.nwb of the site s1
ManifestB ==
    Some(<< ManifestEntry("image", << "s", "1", "/", "i", ".", "t", "i", "f" >>),
            ManifestEntry("MIES physiology", << "s", "1", "/", "b", ".", "n", "w", "b" >>) >>)

\* a manifest without an entry of the category MIES physiology
ManifestNone == Some(<< ManifestEntry("image", << "s", "1", "/", "i", ".", "t", "i", "f" >>) >>)

\* the directory holds no recording, one (either case of the suffix), one of
\* each case, or two, without a manifest or with one
AccessListings ==
    { Listing(<< >>, << >>, Nil),
      Listing(<< << "a", ".", "n", "w", "b" >> >>, << >>, Nil),
      Listing(<< >>, << << "b", ".", "N", "W", "B" >> >>, ManifestNone),
      Listing(<< << "a", ".", "n", "w", "b" >> >>, << << "b", ".", "N", "W", "B" >> >>, Nil),
      Listing(<< << "a", ".", "n", "w", "b" >>, << "b", ".", "n", "w", "b" >> >>, << >>, Nil),
      Listing(<< << "a", ".", "n", "w", "b" >>, << "b", ".", "n", "w", "b" >> >>, << >>, ManifestNone),
      Listing(<< << "a", ".", "n", "w", "b" >>, << "b", ".", "n", "w", "b" >> >>, << >>, ManifestB),
      Listing(<< << "b", ".", "n", "w", "b" >>, << "a", ".", "n", "w", "b" >> >>, << >>, ManifestB) }

\* what the file system and LIMS hold when an accessor is read: the
\* candidates that are directories, whether the slice has an index file,
\* whether LIMS knows the specimen and its record, the recordings of the site
Env(dirs, index, found, record, ls) ==
    [ dirs |-> dirs, index |-> index, specimen_ID |-> << " ", "S", "1", " " >>, found |-> found,
      record |-> record, ls |-> ls ]

SiteDirs == { { }, { 1 }, { 2, 4 } }

PathEnvs == { Env(d, TRUE, TRUE, lims, Listing(<< >>, << >>, Nil)) : d \in SiteDirs }

LimsEnvs ==
    { Env(d, i, f, r, Listing(<< >>, << >>, Nil)) :
        d \in SiteDirs, i \in BOOLEAN, f \in BOOLEAN, r \in LimsRecords }

NwbEnvs == { Env(d, TRUE, TRUE, lims, ls) : d \in SiteDirs, ls \in AccessListings }

InitAccess == Init /\ fmt = "old"

NextAccess ==
    \/ OldBegin
    \/ \E env \in PathEnvs : ReadPath(env)
    \/ \E env \in LimsEnvs : ReadLimsRecord(env)
    \/ \E env \in LimsEnvs : ReadGenotype(env)
    \/ \E env \in NwbEnvs : ReadNwbFile(env)

SpecAccess == InitAccess /\ [][NextAccess]_vars

\* the entries of a manifest of the category MIES physiology
MiesEntries(manifest) ==
    IF manifest = Nil THEN { }
    ELSE { k \in DOMAIN Val(manifest) : Val(manifest)[k].category = "MIES physiology" }

\* C14: a read of nwb_file that looks into the directory of the site returns
\* the only recording if there is exactly one, raises if there is none, and
\* with several recordings returns the file that the first manifest entry of
\* the category MIES physiology names, raising if there is no such entry
C14_AsStated ==
    (acc = "nwb_file" /\ site_dir # Nil) =>
      LET ls == Val(site_dir)
          all == ls.lower \o ls.upper
          mies == MiesEntries(ls.manifest)
      IN  IF Len(all) = 0 THEN acc_err # ""
          ELSE IF Len(all) = 1
               THEN acc_err = "" /\ _nwb_file = Some(Join(Val(_site_path), all[1]))
          ELSE IF mies = { } THEN acc_err # ""
          ELSE LET k == CHOOSE n \in mies : \A m \in mies : n <= m
               IN  /\ acc_err = ""
                   /\ _nwb_file = Some(Join(Dirname(Val(_site_path)), Val(ls.manifest)[k].path))

(***************************************************************************)
(* Legacy names that encode the target layer                               *)
(***************************************************************************)
\* entries whose Labeling section has lines with legacy layer names, their
\* cells carrying each marker, and a line with a driver
LayerInputLines ==
    { LabelAllCells,
      LabelLineOf(<< "h", "u", "m", "a", "n", "_", "l", "4" >>, << << "1", "+" >> >>),
      LabelLineOf(<< "h", "u", "m", "a", "n", "_", "l", "4" >>, << << "1", "+" >>, << "2", "-" >> >>),
      LabelLineOf(<< "h", "u", "m", "a", "n", "_", "L", "2", "3" >>, << << "3", "+" >>, << "4", "x", "+", "?" >> >>),
      LabelLineOf(<< "h", "u", "m", "a", "n", "_", "l", "5" >>, << << "5", "x" >> >>),
      LabelLineOf(<< "h", "u", "m", "a", "n", "_", "l", "5" >>, << << "?" >> >>),
      LabelLineOf(<< "L", "2", "3", "p", "y", "r" >>, << << "3", "-" >>, << "4", "x" >>, << "5", "+" >>, << "6", "?" >> >>),
      LabelLineOf(<< "L", "1" >>, << << "7" >> >>) }

LayerInputs ==
    [ children |-> << { Labeling }, { CellQC }, { Connections } >>,
      labels |-> LayerInputLines,
      qc |-> { QCLine12(<< "S", "p", "i", "k", "i", "n", "g", ":" >>, "+", "+") },
      conns |-> { TextLine("conn", ConnText(1, 2, FALSE, << >>)) },
      pips |-> { Pip("True", Layer(<< "4" >>), << >>, QC(<< "+" >>, << "+" >>, << "+" >>), Nil, Nil), NoData } ]

SpecLayers == Init /\ [][NextLoad(LayerInputs) \/ NextInit]_vars

\* the name of a Labeling line
NameOf(line) == SubSeq(line.head, 1, Len(line.head) - 1)

\* the name is a legacy layer-encoding name
IsLegacyName(name) == StartsWith(Lower(name), << "h", "u", "m", "a", "n", "_", "l" >>) \/ name \in layer_labels

\* the layer a legacy name encodes: its digits, 23 standing for 2/3
LayerOfName(name) ==
    LET d == SelectSeq(name, LAMBDA ch : ch \in Digits)
    IN  IF d = << "2", "3" >> THEN << "2", "/", "3" >> ELSE d

\* the cells a Labeling line lists
ListedCells(line) ==
    IF Len(line.parts) = 1 /\ line.parts[1] = << "?" >> THEN { }
    ELSE { ParseInt(MatchLabelPart(line.parts[k]).g1) : k \in DOMAIN line.parts }

\* C15: no cell ever has a legacy layer-encoding name among its labels, and
\* when a line of the Labeling section has been parsed, the cells it lists
\* have the layer of its name as target_layer if the name is a legacy name,
\* and an entry labels[name] if it is any other name
C15_AsStated ==
    /\ \A i \in DOMAIN cells : \A name \in DOMAIN cells[i].labels : ~IsLegacyName(name)
    /\ (fmt = "old" /\ pc = "labeling" /\ cur.kind = "label") =>
         \A i \in ListedCells(cur) :
           IF IsLegacyName(NameOf(cur))
           THEN cells[i].target_layer = Some(LayerOfName(NameOf(cur)))
           ELSE NameOf(cur) \in DOMAIN cells[i].labels

(***************************************************************************)
(* Memoization of the derived views                                        *)
(***************************************************************************)
\* C16 as stated: every read of a derived view returns what the first read of
\* that view returned, whatever the caller changed in between
C16_AsStated ==
    ret.view \in DOMAIN first_read => ret.value = first_read[ret.view]

\* C16 amended: cre_types, target_layers, labels and connections_probed
\* return at every read what their first read returned, and so does
\* summary() once it has returned a mapping; connections returns at every
\* read the curated list as it is now, filtered by the memoized
\* connections_probed, and None while there is no curated list
C16_Memoized ==
    ret.view \in DOMAIN first_read =>
      IF ret.view = "connections"
      THEN ret.value = IF _connections = Nil THEN Nil
                       ELSE Some(SelectSeq(Val(_connections),
                                           LAMBDA c : c \in Range(Val(_probed))))
      ELSE IF ret.view = "summary" /\ first_read["summary"] = Nil
      THEN ret.value = Nil \/ ret.value = _summary
      ELSE ret.value = first_read[ret.view]

\* connections_probed was read a second time after a change of the cells
\* that a derivation would have taken into account
C16_Witness ==
    /\ ret.view = "connections_probed"
    /\ "connections_probed" \in DOMAIN first_read
    /\ ret.value = first_read["connections_probed"]
    /\ ret.value # Some(ComputeProbed(cells))
    /\ "summary" \in DOMAIN first_read /\ first_read["summary"] # Nil
    /\ _summary # Some(SummaryLoop(EmptySummary, cells, ComputeProbed(cells),
                                   FilterCalls(Val(_connections), ComputeProbed(cells))))

(***************************************************************************)
(* Independence and caching of the accessors                               *)
(***************************************************************************)
\* the not-found error of an accessor's own fact
OwnErrors(name) ==
    IF name = "path" THEN { "Cannot find filesystem path" }
    ELSE IF name = "lims_record" THEN { "Cannot find slice index file", "specimen not found" }
    ELSE IF name = "nwb_file" THEN { "No NWB file found", "Multiple NWB files found" }
    ELSE { }

\* the accessors a read of the accessor goes through
DependsOn(name) ==
    IF name = "path" THEN { "path" }
    ELSE IF name = "lims_record" THEN { "path", "lims_record" }
    ELSE IF name = "nwb_file" THEN { "path", "nwb_file" }
    ELSE { "path", "lims_record", "genotype" }

\* C17 as stated: the accessors are independent, a read fails only with the
\* not-found error of the accessor that is read, never with that of another
C17_AsStated ==
    acc_err # "" => acc_err \in OwnErrors(acc)

\* C17 amended: a cached value of path, slice_info, lims_record, genotype or
\* nwb_file is never changed by any read, failed or not; a read of an accessor
\* whose value is cached does not fail, whatever the file system and LIMS
\* hold by then; a read that fails fails with the not-found error of the
\* accessor itself or of an accessor it goes through, and never with that of
\* path once path is cached
C17_CachedIndependently ==
    /\ [][/\ _site_path # Nil => _site_path' = _site_path
          /\ _slice_info # Nil => _slice_info' = _slice_info
          /\ _lims_record # Nil => _lims_record' = _lims_record
          /\ _genotype # Nil => _genotype' = _genotype
          /\ _nwb_file # Nil => _nwb_file' = _nwb_file]_vars
    /\ [][/\ (_site_path # Nil /\ acc' = "path") => acc_err' = ""
          /\ (_lims_record # Nil /\ acc' \in { "lims_record", "genotype" }) => acc_err' = ""
          /\ (_genotype # Nil /\ acc' = "genotype") => acc_err' = ""
          /\ (_nwb_file # Nil /\ acc' = "nwb_file") => acc_err' = ""
          /\ (_site_path # Nil /\ acc' # "") => acc_err' # "Cannot find filesystem path"]_vars
    /\ [](acc_err # "" => \E d \in DependsOn(acc) : acc_err \in OwnErrors(d))

\* nwb_file is read from its cache and succeeds after a read of lims_record
\* that cached slice_info and then failed
C17_Witness ==
    /\ acc = "nwb_file" /\ acc_err = "" /\ site_dir = Nil /\ _nwb_file # Nil
    /\ _slice_info # Nil /\ _lims_record = Nil

(***************************************************************************)
(* The cache file of _generate_cell_qc                                     *)
(***************************************************************************)
\* the file holds a complete cache that keeps every entry of the file f
CompleteNewCache(f) ==
    /\ cache_file.kind = "pickle"
    /\ f.kind = "pickle" =>
         \A k \in DOMAIN f.dict : k \in DOMAIN cache_file.dict /\ cache_file.dict[k] = f.dict[k]

\* C18 as stated: after a crash in a call that began with a readable cache
\* file, the path of the cache file holds the complete previous cache or a
\* complete new cache, and is neither missing nor partial
C18_AsStated ==
    (qc_pc = "crashed" /\ at_call.kind = "pickle") =>
        cache_file = at_call \/ CompleteNewCache(at_call)

(***************************************************************************)
(* The recording handle                                                    *)
(***************************************************************************)
\* C19: outside the loop over the sweeps and its finally clause the
\* recording is closed and _data is None: after the loop has run to its end,
\* after the break at MinPassing passed sweeps and after an exception
C19_DataClosed ==
    qc_pc \notin { "loop", "finally", "finally_raise" } => _data = None

\* the call opened the recording, left the loop at the break and has closed
\* the recording
C19_Witness ==
    qc_pc = "dump" /\ passed_holding >= MinPassing /\ nsweeps < MaxSweeps /\ _data = None

(***************************************************************************)
(* A missing or unreadable cache file                                      *)
(***************************************************************************)
Unusable(f) == f.kind \in { "missing", "corrupt", "partial" }

\* C20: a call that finds the cache file missing or unreadable goes on with
\* an empty cache, does not find its key in it and opens the recording, and
\* when it returns the cache file is readable and holds the key with the
\* value returned
C20_FallsBackToEmpty ==
    /\ [][(qc_pc = "idle" /\ qc_pc' # "idle" /\ Unusable(cache_file))
            => qc_pc' = "key" /\ cache' = EmptyDict]_vars
    /\ [][(qc_pc = "key" /\ Unusable(at_call) /\ cache_key' # Nil) => qc_pc' = "open"]_vars
    /\ []((qc_pc = "return" /\ Unusable(at_call)) =>
            /\ cache_file.kind = "pickle"
            /\ Val(cache_key) \in DOMAIN cache_file.dict
            /\ cache_file.dict[Val(cache_key)] = cache[Val(cache_key)])

\* a call that began with a corrupt cache file is about to return
C20_Witness ==
    qc_pc = "return" /\ at_call.kind = "corrupt" /\ cache_file.kind = "pickle"
    /\ Val(cache_key) \in DOMAIN cache_file.dict

(***************************************************************************)
(* Unrecognized keys and malformed tokens of the Cell QC section           *)
(***************************************************************************)
QCKeys == { << "H", "o", "l", "d", "i", "n", "g", ":" >>, << "A", "c", "c", "e", "s", "s", ":" >>, << "S", "p", "i", "k", "i", "n", "g", ":" >> }

\* 'Foo:' (no tokens), 'Foo: 1+', 'Holding: 1+x', 'Holding: 1+ 2x',
\* 'Holding: x1+', 'Access: +', 'Spiking: 1+', 'Spiking: 2-'
QCErrInputLines ==
    { PartsLine("qc", << "F", "o", "o", ":" >>, << >>),
      PartsLine("qc", << "F", "o", "o", ":" >>, << << "1", "+" >> >>),
      PartsLine("qc", << "H", "o", "l", "d", "i", "n", "g", ":" >>, << << "1", "+", "x" >> >>),
      PartsLine("qc", << "H", "o", "l", "d", "i", "n", "g", ":" >>, << << "1", "+" >>, << "2", "x" >> >>),
      PartsLine("qc", << "H", "o", "l", "d", "i", "n", "g", ":" >>, << << "x", "1", "+" >> >>),
      PartsLine("qc", << "A", "c", "c", "e", "s", "s", ":" >>, << << "+" >> >>),
      PartsLine("qc", << "S", "p", "i", "k", "i", "n", "g", ":" >>, << << "1", "+" >> >>),
      PartsLine("qc", << "S", "p", "i", "k", "i", "n", "g", ":" >>, << << "2", "-" >> >>) }

\* entries whose Cell QC section holds lines with an unrecognized key, with
\* and without tokens, and lines with malformed tokens
QCErrInputs ==
    [ children |-> << { Labeling }, { CellQC }, { Connections } >>,
      labels |-> { LabelAllCells },
      qc |-> QCErrInputLines,
      conns |-> { TextLine("conn", ConnText(1, 2, FALSE, << >>)) },
      pips |-> CorePipettes ]

SpecQCErr == Init /\ [][NextLoad(QCErrInputs) \/ NextInit]_vars

\* the token is a cell id followed by one marker and nothing else
WellFormedQCToken(part) ==
    LET n == SpanLen(part, Digits)
    IN  n >= 1 /\ Len(part) = n + 1 /\ part[n + 1] \in QCMarkers

\* C21 as stated: a line of the Cell QC section whose key is not Holding:,
\* Access: or Spiking:, with or without tokens, or that holds a token that is
\* not a cell id followed by one marker, aborts construction
C21_AsStated ==
    (cur.kind = "qc" /\ (cur.head \notin QCKeys
                         \/ \E k \in DOMAIN cur.parts : ~WellFormedQCToken(cur.parts[k])))
        => pc = "failed"

(***************************************************************************)
(* Malformed postsynaptic ids of a YAML record                             *)
(***************************************************************************)
\* records whose synapse_to or gap_to holds one entry: the int 1, the int 9
\* (no such pipette), the strings '1', '9', '1?', 'x1', '1x' and ''
PostIdEntries ==
    { IntId(1), IntId(9), StrId(<< "1" >>), StrId(<< "9" >>), StrId(<< "1", "?" >>), StrId(<< "x", "1" >>),
      StrId(<< "1", "x" >>), StrId(<< >>) }

PostIdPipettes ==
    { Pip("True", Layer(<< "4" >>), << >>, QC(<< "+" >>, << "+" >>, << "+" >>), Some(<< e >>), Nil) :
        e \in PostIdEntries }
    \cup { Pip("True", Layer(<< "4" >>), << >>, QC(<< "+" >>, << "+" >>, << "+" >>), Nil, Some(<< e >>)) :
        e \in { IntId(1), StrId(<< "1" >>), StrId(<< "x", "1" >>) } }
    \cup { NoData }

PostIdInputs ==
    [ children |-> << { Labeling }, { CellQC }, { Connections } >>,
      labels |-> { LabelAllCells },
      qc |-> { QCLine12(<< "S", "p", "i", "k", "i", "n", "g", ":" >>, "+", "+") },
      conns |-> { TextLine("conn", ConnText(1, 2, FALSE, << >>)) },
      pips |-> PostIdPipettes ]

SpecPostId == Init /\ [][NextLoad(PostIdInputs) \/ NextInit]_vars

\* the loop over synapse_to and gap_to of the cells has raised
FailedAtSynapses == fmt = "yml" /\ pc = "failed" /\ nlines >= 1

\* C22 as stated: whatever entry makes the loop over synapse_to and gap_to
\* fail, a string that is not digits with an optional '?' or an id that is
\* not a cell, the exception is the ValueError of line 343
C22_AsStated ==
    FailedAtSynapses => err.kind = "ValueError"

(***************************************************************************)
(* The keys of the cache file                                              *)
(***************************************************************************)
\* the positions of a call between pickle.dump and os.rename
WritingBack == qc_pc \in { "dump", "dumping", "remove", "rename" }

\* C23: a call that began with a readable cache file and is about to return
\* leaves a readable cache file that holds every key the file held when the
\* call began, with the same value; the cache file and the temporary file are
\* written only in the write-back, and a call whose key was in the file does
\* not get there
C23_KeysOnlyGrow ==
    /\ []((qc_pc = "return" /\ at_call.kind = "pickle") => CompleteNewCache(at_call))
    /\ [][~WritingBack => (cache_file' = cache_file /\ tmp_file' = tmp_file)]_vars
    /\ []((WritingBack /\ at_call.kind = "pickle") => Val(cache_key) \notin DOMAIN at_call.dict)

\* a call that found a key of another recording in the file has written its
\* own key back and is about to return
C23_Witness ==
    /\ qc_pc = "return" /\ at_call.kind = "pickle" /\ at_call.dict # EmptyDict
    /\ Val(cache_key) \notin DOMAIN at_call.dict
    /\ cache_file.kind = "pickle" /\ Cardinality(DOMAIN cache_file.dict) = 2

(***************************************************************************)
(* The flags derived from the recording                                    *)
(***************************************************************************)
\* the holding check of a sweep recorded on the channel: in voltage clamp
\* the baseline current is known and below 800 pA in magnitude, otherwise
\* the baseline potential is strictly between -75 mV and -50 mV
HoldingCheck(rec) ==
    IF rec.clamp_mode = "vc"
    THEN /\ rec.baseline_current # Nil
         /\ Val(rec.baseline_current) > 0 - 800 /\ Val(rec.baseline_current) < 800
    ELSE rec.baseline_potential > 0 - 75 /\ rec.baseline_potential < 0 - 50

\* the sweep is recorded on the channel, can be read and passes the check
Counts(sw) == sw.has /\ ~sw.raises /\ HoldingCheck(sw)

\* C24: passed_holding counts the sweeps read so far that are recorded on the
\* channel and pass the holding check, sweeps without the channel leave it as
\* it is, the loop goes on only below 5 of them, and the result derived is
\* (True, True, True) if 5 have passed and (False, False, False) otherwise
C24_FlagsFromSweeps ==
    /\ [][(qc_pc = "loop" /\ nsweeps' = nsweeps + 1) =>
            passed_holding' = passed_holding + (IF Counts(srec') THEN 1 ELSE 0)]_vars
    /\ [](qc_pc = "loop" => passed_holding < 5)
    /\ [](qc_pc = "dump" =>
            /\ passed_holding <= 5
            /\ cache[Val(cache_key)] =
                 IF passed_holding = 5 THEN << "True", "True", "True" >>
                 ELSE << "False", "False", "False" >>)

\* five sweeps have passed and one was skipped or failed: the result is
\* (True, True, True)
C24_Witness ==
    /\ qc_pc = "dump" /\ passed_holding = 5 /\ nsweeps = 6
    /\ cache[Val(cache_key)] = << "True", "True", "True" >>

====
